---------------------------- MODULE Spec2Model ----------------------------
(***************************************************************************)
(* A model of bluebookify: citation extraction (extractor.ts), prompt      *)
(* construction (prompt.ts), reply parsing and splicing (replacer.ts) and  *)
(* the batch loop (core.ts).                                               *)
(*                                                                         *)
(* A JavaScript string is a sequence of one-character strings; offsets are *)
(* 0-based as in the source, so the character at offset p of t is t[p+1].  *)
(***************************************************************************)
EXTENDS Integers, Sequences, FiniteSets, TLC

(***************************************************************************)
(* JavaScript string primitives.                                           *)
(***************************************************************************)
SetMin(S) == CHOOSE x \in S : \A y \in S : x <= y
SetMax(S) == CHOOSE x \in S : \A y \in S : x >= y
Min(a, b) == IF a < b THEN a ELSE b
Max(a, b) == IF a > b THEN a ELSE b

\* String.prototype.slice(a, b): negative indices count from the end, both
\* are clamped to [0, length], an empty range gives "".
SliceIndex(t, a) == IF a < 0 THEN Max(Len(t) + a, 0) ELSE Min(a, Len(t))
Slice(t, a, b) == SubSeq(t, SliceIndex(t, a) + 1, SliceIndex(t, b))
\* slice(a) with the end omitted
SliceFrom(t, a) == SubSeq(t, SliceIndex(t, a) + 1, Len(t))

\* The characters the classes of the patterns are made of.
Upper == {"A", "B", "C", "D", "E", "F", "G", "H", "I", "J", "K", "L", "M",
          "N", "O", "P", "Q", "R", "S", "T", "U", "V", "W", "X", "Y", "Z"}
Lower == {"a", "b", "c", "d", "e", "f", "g", "h", "i", "j", "k", "l", "m",
          "n", "o", "p", "q", "r", "s", "t", "u", "v", "w", "x", "y", "z"}
Digit == {"0", "1", "2", "3", "4", "5", "6", "7", "8", "9"}
\* \s (the members that the texts of the model use)
WhiteSpace == {" ", "\t", "\n", "\r"}
\* Characters outside ASCII are written by their code point: each of these
\* strings stands for one character.
SectionSign == "U+00A7"
EnDash      == "U+2013"
Backtick    == "U+0060"
LeftQuote   == "U+201C"
RightQuote  == "U+201D"
Arrow       == "U+2192"
\* \w
WordChar == Upper \cup Lower \cup Digit \cup {"_"}

RECURSIVE TrimStart(_)
TrimStart(t) ==
    IF t # <<>> /\ Head(t) \in WhiteSpace THEN TrimStart(Tail(t)) ELSE t

RECURSIVE TrimEnd(_)
TrimEnd(t) ==
    IF t # <<>> /\ t[Len(t)] \in WhiteSpace
    THEN TrimEnd(SubSeq(t, 1, Len(t) - 1)) ELSE t

Trim(t) == TrimStart(TrimEnd(t))

(***************************************************************************)
(* JavaScript numbers.  A finite number is its sign, integer part and      *)
(* fraction digits (no trailing zeros); NaN and the infinities are kinds   *)
(* of their own; Undefined is the value of an absent option.               *)
(***************************************************************************)
Fin(sign, int, frac) == [k |-> "fin", s |-> sign, i |-> int, f |-> frac]
IntNum(n) == IF n < 0 THEN Fin(-1, -n, <<>>) ELSE Fin(1, n, <<>>)
NaN       == [k |-> "nan", s |-> 1, i |-> 0, f |-> <<>>]
Infinity  == [k |-> "inf", s |-> 1, i |-> 0, f |-> <<>>]
Undefined == [k |-> "undefined", s |-> 1, i |-> 0, f |-> <<>>]

\* Number.isFinite
IsFinite(v) == v.k = "fin"
\* v < m, for an integer m; every comparison with NaN is false
LessThanInt(v, m) ==
    CASE v.k = "fin" -> IF v.s = 1 THEN v.i < m
                        ELSE (-v.i < m) \/ (-v.i = m /\ v.f # <<>>)
      [] v.k = "inf" -> v.s = -1
      [] OTHER -> FALSE
\* Math.floor(v) === v, for a finite v
IsWhole(v) == v.f = <<>>
\* the integer a whole finite number is
ToInt(v) == v.s * v.i

(***************************************************************************)
(* Regular expressions.  A pattern is a tree; Ends(r, t, p) is the         *)
(* sequence of offsets at which a match of r that starts at offset p can   *)
(* end, in the order in which a backtracking matcher tries them (greedy    *)
(* quantifiers first, alternatives left to right).  Its head is the match  *)
(* RegExp.prototype.exec reports.                                          *)
(***************************************************************************)
Chr(S)    == [k |-> "chr", s |-> S]
NotChr(S) == [k |-> "nchr", s |-> S]
Lit(w)    == [k |-> "lit", w |-> w]
Cat(rs)   == [k |-> "cat", rs |-> rs]
Alt(rs)   == [k |-> "alt", rs |-> rs]
Opt(r)    == [k |-> "opt", r |-> r]
Star(r)   == [k |-> "star", r |-> r]
Plus(r)   == [k |-> "cat", rs |-> <<r, [k |-> "star", r |-> r]>>]
WordB     == [k |-> "wb"]
EndOfText == [k |-> "eot"]

RECURSIVE Dedup(_)
Dedup(s) ==
    IF s = <<>> THEN <<>>
    ELSE <<Head(s)>> \o SelectSeq(Dedup(Tail(s)), LAMBDA x : x # Head(s))

IsWordAt(t, p) == p >= 0 /\ p < Len(t) /\ t[p + 1] \in WordChar

RECURSIVE Ends(_, _, _)
RECURSIVE EndsFrom(_, _, _)
RECURSIVE EndsCat(_, _, _)
RECURSIVE EndsAlt(_, _, _)

\* r continued from each offset of ps, in order
EndsFrom(r, t, ps) ==
    IF ps = <<>> THEN <<>>
    ELSE Ends(r, t, Head(ps)) \o EndsFrom(r, t, Tail(ps))

EndsCat(rs, t, ps) ==
    IF rs = <<>> THEN ps
    ELSE EndsCat(Tail(rs), t, Dedup(EndsFrom(Head(rs), t, ps)))

EndsAlt(rs, t, p) ==
    IF rs = <<>> THEN <<>>
    ELSE Ends(Head(rs), t, p) \o EndsAlt(Tail(rs), t, p)

Ends(r, t, p) ==
    CASE r.k = "chr" ->
           IF p < Len(t) /\ t[p + 1] \in r.s THEN <<p + 1>> ELSE <<>>
      [] r.k = "nchr" ->
           IF p < Len(t) /\ t[p + 1] \notin r.s THEN <<p + 1>> ELSE <<>>
      [] r.k = "lit" ->
           IF p + Len(r.w) <= Len(t) /\ SubSeq(t, p + 1, p + Len(r.w)) = r.w
           THEN <<p + Len(r.w)>> ELSE <<>>
      [] r.k = "wb" ->
           IF IsWordAt(t, p - 1) # IsWordAt(t, p) THEN <<p>> ELSE <<>>
      [] r.k = "eot" ->
           IF p = Len(t) THEN <<p>> ELSE <<>>
      [] r.k = "cat" -> EndsCat(r.rs, t, <<p>>)
      [] r.k = "alt" -> Dedup(EndsAlt(r.rs, t, p))
      [] r.k = "opt" -> Dedup(Ends(r.r, t, p) \o <<p>>)
      [] r.k = "star" ->
           Dedup(EndsFrom(r, t, SelectSeq(Ends(r.r, t, p), LAMBDA e : e > p))
                 \o <<p>>)

\* exec from lastIndex: the leftmost offset with a match, and that match
NoMatch == [start |-> -1, end |-> -1]

\* endsAt[b]: the ends of the matches that start at offset b
FirstMatch(endsAt) ==
    LET starts == {b \in DOMAIN endsAt : endsAt[b] # <<>>}
    IN  IF starts = {} THEN NoMatch
        ELSE [start |-> SetMin(starts), end |-> endsAt[SetMin(starts)][1]]

Exec(r, t, lastIndex) ==
    FirstMatch([b \in lastIndex..Len(t) |-> Ends(r, t, b)])

\* String.prototype.search
Search(t, r) == Exec(r, t, 0).start

(***************************************************************************)
(* extractor.ts: the patterns.                                             *)
(***************************************************************************)
Ws == Chr(WhiteSpace)
Digits == Plus(Chr(Digit))

\* [A-Z][A-Za-z'.]+
NameWord == Cat(<<Chr(Upper), Plus(Chr(Upper \cup Lower \cup {"'", "."}))>>)
\* [A-Z][A-Za-z'.]+(?:\s+[A-Z][A-Za-z'.]+)*
PartyName == Cat(<<NameWord, Star(Cat(<<Plus(Ws), NameWord>>))>>)

\* (?:U\.S\.|S\.\s*Ct\.|L\.\s*Ed\.(?:\s*2d)?|F\.(?:2d|3d|4th)|
\*    F\.\s*Supp\.(?:\s*(?:2d|3d))?|F\.\s*App'x)
Reporter ==
    Alt(<<Lit(<<"U", ".", "S", ".">>),
          Cat(<<Lit(<<"S", ".">>), Star(Ws), Lit(<<"C", "t", ".">>)>>),
          Cat(<<Lit(<<"L", ".">>), Star(Ws), Lit(<<"E", "d", ".">>),
                Opt(Cat(<<Star(Ws), Lit(<<"2", "d">>)>>))>>),
          Cat(<<Lit(<<"F", ".">>),
                Alt(<<Lit(<<"2", "d">>), Lit(<<"3", "d">>),
                      Lit(<<"4", "t", "h">>)>>)>>),
          Cat(<<Lit(<<"F", ".">>), Star(Ws), Lit(<<"S", "u", "p", "p", ".">>),
                Opt(Cat(<<Star(Ws),
                          Alt(<<Lit(<<"2", "d">>), Lit(<<"3", "d">>)>>)>>))>>),
          Cat(<<Lit(<<"F", ".">>), Star(Ws),
                Lit(<<"A", "p", "p", "'", "x">>)>>)>>)

CASE_RE ==
    Cat(<<PartyName, Plus(Ws), Lit(<<"v", ".">>), Plus(Ws), PartyName,
          Opt(Lit(<<",">>)), Plus(Ws), Digits, Plus(Ws), Reporter, Plus(Ws),
          Digits,
          Opt(Cat(<<Lit(<<",">>), Star(Ws), Digits>>)),
          Opt(Cat(<<Star(Ws), Lit(<<"(">>), Star(NotChr({")"})),
                    Chr(Digit), Chr(Digit), Chr(Digit), Chr(Digit),
                    Lit(<<")">>)>>))>>)

STATUTE_RE ==
    Cat(<<Digits, Plus(Ws),
          Alt(<<Lit(<<"U", ".", "S", ".", "C", ".">>),
                Lit(<<"C", ".", "F", ".", "R", ".">>)>>),
          Star(Ws), Plus(Lit(<<SectionSign>>)), Star(Ws), Digits,
          Opt(Cat(<<Lit(<<".">>), Digits>>)),
          Star(Cat(<<Lit(<<"(">>), Plus(Chr(Upper \cup Lower \cup Digit)),
                     Lit(<<")">>)>>)),
          Opt(Cat(<<Alt(<<Lit(<<EnDash>>), Lit(<<"-">>)>>), Digits,
                    Opt(Cat(<<Lit(<<".">>), Digits>>))>>))>>)

SHORT_FORM_RE ==
    Cat(<<NameWord, Lit(<<",">>), Plus(Ws), Digits, Plus(Ws), Reporter,
          Plus(Ws), Lit(<<"a", "t">>), Plus(Ws), Digits>>)

ID_RE ==
    Cat(<<WordB, Lit(<<"I", "d", ".">>),
          Opt(Cat(<<Plus(Ws), Lit(<<"a", "t">>), Plus(Ws), Digits,
                    Opt(Cat(<<Chr({",", EnDash, "-"}), Star(Ws), Digits>>))>>))>>)

SIGNAL_RE ==
    Cat(<<WordB,
          Alt(<<Cat(<<Lit(<<"S", "e", "e">>), Plus(Ws),
                      Lit(<<"a", "l", "s", "o">>)>>),
                Cat(<<Lit(<<"B", "u", "t">>), Plus(Ws),
                      Lit(<<"s", "e", "e">>)>>),
                Cat(<<Lit(<<"B", "u", "t">>), Plus(Ws),
                      Lit(<<"c", "f", ".">>)>>),
                Cat(<<Lit(<<"S", "e", "e">>), Opt(Lit(<<",">>)), Plus(Ws),
                      Lit(<<"e", ".", "g", ".", ",">>)>>),
                Lit(<<"S", "e", "e">>),
                Lit(<<"C", "f", ".">>),
                Cat(<<Lit(<<"A", "c", "c", "o", "r", "d">>),
                      Opt(Lit(<<",">>))>>),
                Lit(<<"C", "o", "m", "p", "a", "r", "e">>),
                Lit(<<"E", ".", "g", ".", ",">>)>>),
          Ws>>)

(***************************************************************************)
(* extractor.ts: extractCitations.                                         *)
(***************************************************************************)
\* while ((match = pattern.exec(text)) !== null) push {text, start, end}
RECURSIVE MatchAll(_, _, _)
\* the match m of the loop's exec, and the matches after it
MatchesFrom(pattern, text, m) ==
    IF m = NoMatch THEN <<>>
    ELSE <<[text |-> Slice(text, m.start, m.end),
            start |-> m.start, end |-> m.end]>>
         \o MatchAll(pattern, text, m.end)

MatchAll(pattern, text, lastIndex) ==
    MatchesFrom(pattern, text, Exec(pattern, text, lastIndex))

AllMatches(text) ==
    MatchAll(CASE_RE, text, 0) \o MatchAll(STATUTE_RE, text, 0)
    \o MatchAll(SHORT_FORM_RE, text, 0) \o MatchAll(ID_RE, text, 0)

Signals(text) == MatchAll(SIGNAL_RE, text, 0)

\* (a, b) => a.start - b.start || b.end - a.end
CompareMatches(a, b) ==
    IF a.start # b.start THEN a.start - b.start ELSE b.end - a.end

\* Array.prototype.sort is stable
RECURSIVE InsertSorted(_, _)
InsertSorted(s, m) ==
    IF s = <<>> THEN <<m>>
    ELSE IF CompareMatches(Head(s), m) <= 0
         THEN <<Head(s)>> \o InsertSorted(Tail(s), m)
         ELSE <<m>> \o s

\* the matches left in the order of the matchers
Unsorted(ms) == ms

RECURSIVE SortMatches(_)
SortMatches(ms) ==
    IF ms = <<>> THEN <<>>
    ELSE InsertSorted(SortMatches(SubSeq(ms, 1, Len(ms) - 1)), ms[Len(ms)])

\* the merge loop's body with the test m.start <= last.start
MergeStepByStart(text, merged, m) ==
    IF merged # <<>> /\ m.start <= merged[Len(merged)].start
    THEN LET last == merged[Len(merged)]
         IN  IF m.end > last.end
             THEN [merged EXCEPT ![Len(merged)] =
                      [text |-> Slice(text, last.start, m.end),
                       start |-> last.start, end |-> m.end]]
             ELSE merged
    ELSE Append(merged, m)

\* the body of the merge loop, for one match m
MergeStep(text, merged, m) ==
    IF merged # <<>> /\ m.start <= merged[Len(merged)].end
    THEN LET last == merged[Len(merged)]
         IN  IF m.end > last.end
             THEN [merged EXCEPT ![Len(merged)] =
                      [text |-> Slice(text, last.start, m.end),
                       start |-> last.start, end |-> m.end]]
             ELSE merged
    ELSE Append(merged, m)

RECURSIVE MergeMatches(_, _, _)
MergeMatches(text, ms, merged) ==
    IF ms = <<>> THEN merged
    ELSE MergeMatches(text, Tail(ms), MergeStep(text, merged, Head(ms)))

\* the signal loop's body without the assignment to citation.text
FuseStepKeepsText(text, citation, signal) ==
    IF signal.end = citation.start \/ signal.end = citation.start - 1
    THEN [citation EXCEPT !.start = signal.start]
    ELSE citation

\* the signal loop's body with the test signal.end === citation.start alone
FuseStepTouchingOnly(text, citation, signal) ==
    IF signal.end = citation.start
    THEN [citation EXCEPT !.start = signal.start,
                          !.text = Slice(text, signal.start, citation.end)]
    ELSE citation

\* the body of the signal loop, for one citation and one signal
FuseStep(text, citation, signal) ==
    IF signal.end = citation.start \/ signal.end = citation.start - 1
    THEN [citation EXCEPT !.start = signal.start,
                          !.text = Slice(text, signal.start, citation.end)]
    ELSE citation

RECURSIVE FuseSignals(_, _, _)
FuseSignals(text, citation, signals) ==
    IF signals = <<>> THEN citation
    ELSE FuseSignals(text, FuseStep(text, citation, Head(signals)),
                     Tail(signals))

FuseAll(text, merged, signals) ==
    [j \in 1..Len(merged) |-> FuseSignals(text, merged[j], signals)]

\* lines 119-124, idx the result of before.search(/\s/)
TrimBefore(before, bStart, idx) ==
    IF bStart > 0 /\ idx # -1 THEN TrimStart(SliceFrom(before, idx))
    ELSE before

BeforeWindow(text, bStart, start) ==
    TrimBefore(Slice(text, bStart, start), bStart,
               Search(Slice(text, bStart, start), Ws))

\* the window of line 116 with one character more
BeforeContextOneMore(text, start, contextSize) ==
    BeforeWindow(text, Max(0, start - contextSize - 1), start)

BeforeContext(text, start, contextSize) ==
    BeforeWindow(text, Max(0, start - contextSize), start)

\* lines 130-135, idx the result of after.search(/\s[^\s]*$/)
TrimAfter(after, cut, idx) ==
    IF cut /\ idx > 0 THEN Slice(after, 0, idx) ELSE after

AfterWindow(text, end, aEnd) ==
    TrimAfter(Slice(text, end, aEnd), aEnd < Len(text),
              Search(Slice(text, end, aEnd),
                     Cat(<<Ws, Star(NotChr(WhiteSpace)), EndOfText>>)))

AfterContext(text, end, contextSize) ==
    AfterWindow(text, end, Min(Len(text), end + contextSize))

BuildContexts(text, merged, contextSize) ==
    [j \in 1..Len(merged) |->
        [id       |-> IntNum(j - 1),
         original |-> merged[j].text,
         before   |-> BeforeContext(text, merged[j].start, contextSize),
         after    |-> AfterContext(text, merged[j].end, contextSize),
         start    |-> merged[j].start,
         end      |-> merged[j].end]]

MergedMatches(text) == MergeMatches(text, SortMatches(AllMatches(text)), <<>>)

extractCitations(text, contextSize) ==
    BuildContexts(text, FuseAll(text, MergedMatches(text), Signals(text)),
                  contextSize)

(***************************************************************************)
(* JSON.parse, for texts without string escapes and exponents.  A value is *)
(* [t |-> its type, v |-> its content]; ParseValue returns the value that  *)
(* starts at offset p and the offset after it.                             *)
(***************************************************************************)
Quote == "\""
ControlChars == {"\t", "\n", "\r"}

JsonFail == [ok |-> FALSE, v |-> [t |-> "none", v |-> <<>>], p |-> -1]
JsonOk(type, content, end) ==
    [ok |-> TRUE, v |-> [t |-> type, v |-> content], p |-> end]

\* the first offset >= p that holds no white space (the length, if none)
SkipWs(t, p) ==
    SetMin({j \in p..Len(t) : j = Len(t) \/ t[j + 1] \notin WhiteSpace})

RECURSIVE DigitsValue(_)
DigitsValue(ds) ==
    IF ds = <<>> THEN 0
    ELSE 10 * DigitsValue(SubSeq(ds, 1, Len(ds) - 1))
         + (CHOOSE d \in 0..9 : ToString(d) = ds[Len(ds)])

RECURSIVE StripZeros(_)
StripZeros(ds) ==
    IF ds # <<>> /\ ds[Len(ds)] = "0"
    THEN StripZeros(SubSeq(ds, 1, Len(ds) - 1)) ELSE ds

\* -?(0|[1-9]\d*)(\.\d+)?
JsonNumberRE ==
    Cat(<<Opt(Lit(<<"-">>)),
          Alt(<<Lit(<<"0">>), Cat(<<Chr(Digit \ {"0"}), Star(Chr(Digit))>>)>>),
          Opt(Cat(<<Lit(<<".">>), Plus(Chr(Digit))>>))>>)

\* the number a numeral denotes
NumberOf(w) ==
    LET neg  == w[1] = "-"
        body == IF neg THEN Tail(w) ELSE w
        dot  == {j \in 1..Len(body) : body[j] = "."}
        int  == IF dot = {} THEN body ELSE SubSeq(body, 1, SetMin(dot) - 1)
        frac == IF dot = {} THEN <<>>
                ELSE StripZeros(SubSeq(body, SetMin(dot) + 1, Len(body)))
        zero == DigitsValue(int) = 0 /\ frac = <<>>
    IN  Fin(IF neg /\ ~zero THEN -1 ELSE 1, DigitsValue(int), frac)

ParseString(t, p) ==
    LET close == {j \in (p + 1)..(Len(t) - 1) : t[j + 1] = Quote}
        q     == SetMin(close)
        body  == SubSeq(t, p + 2, q)
    IN  IF close = {} THEN JsonFail
        ELSE IF \E j \in 1..Len(body) : body[j] \in ControlChars \cup {"\\"}
             THEN JsonFail
             ELSE JsonOk("str", body, q + 1)

NumberEndingAt(t, p, es) ==
    IF es = <<>> THEN JsonFail
    ELSE JsonOk("num", NumberOf(SubSeq(t, p + 1, es[1])), es[1])

ParseNumber(t, p) == NumberEndingAt(t, p, Ends(JsonNumberRE, t, p))

ParseLiteral(t, p, w) ==
    IF p + Len(w) <= Len(t) /\ SubSeq(t, p + 1, p + Len(w)) = w
    THEN JsonOk("lit", w, p + Len(w))
    ELSE JsonFail

RECURSIVE ParseValue(_, _)
RECURSIVE ParseElements(_, _, _)
RECURSIVE ParseMembers(_, _, _)

\* the value after "[" (resp. "{"), q the offset of what follows the bracket
ArrayFrom(t, q) ==
    IF q < Len(t) /\ t[q + 1] = "]" THEN JsonOk("arr", <<>>, q + 1)
    ELSE ParseElements(t, q, <<>>)
ObjectFrom(t, q) ==
    IF q < Len(t) /\ t[q + 1] = "}" THEN JsonOk("obj", <<>>, q + 1)
    ELSE ParseMembers(t, q, <<>>)

\* after the element e of an array, q the offset of what follows it
AfterElement(t, acc, e, q) ==
    IF q >= Len(t) THEN JsonFail
    ELSE IF t[q + 1] = "]" THEN JsonOk("arr", Append(acc, e.v), q + 1)
    ELSE IF t[q + 1] = ","
         THEN ParseElements(t, SkipWs(t, q + 1), Append(acc, e.v))
         ELSE JsonFail

ElementParsed(t, acc, e) ==
    IF ~e.ok THEN JsonFail ELSE AfterElement(t, acc, e, SkipWs(t, e.p))

\* the elements of an array from offset p (after "[" or ","), acc before them
ParseElements(t, p, acc) == ElementParsed(t, acc, ParseValue(t, p))

\* after the member mem of an object, q the offset of what follows it
AfterMember(t, mem, q) ==
    IF q >= Len(t) THEN JsonFail
    ELSE IF t[q + 1] = "}" THEN JsonOk("obj", mem, q + 1)
    ELSE IF t[q + 1] = "," THEN ParseMembers(t, SkipWs(t, q + 1), mem)
         ELSE JsonFail

MemberParsed(t, acc, key, val) ==
    IF ~val.ok THEN JsonFail
    ELSE AfterMember(t, Append(acc, [key |-> key.v.v, value |-> val.v]),
                     SkipWs(t, val.p))

AfterKey(t, acc, key, colon) ==
    IF colon < Len(t) /\ t[colon + 1] = ":"
    THEN MemberParsed(t, acc, key, ParseValue(t, SkipWs(t, colon + 1)))
    ELSE JsonFail

KeyParsed(t, acc, key) ==
    IF ~key.ok THEN JsonFail ELSE AfterKey(t, acc, key, SkipWs(t, key.p))

\* the members of an object from offset p (after "{" or ",")
ParseMembers(t, p, acc) ==
    IF p < Len(t) /\ t[p + 1] = Quote
    THEN KeyParsed(t, acc, ParseString(t, p))
    ELSE JsonFail

ParseValue(t, p) ==
    IF p >= Len(t) THEN JsonFail
    ELSE CASE t[p + 1] = Quote -> ParseString(t, p)
           [] t[p + 1] = "[" -> ArrayFrom(t, SkipWs(t, p + 1))
           [] t[p + 1] = "{" -> ObjectFrom(t, SkipWs(t, p + 1))
           [] t[p + 1] = "t" -> ParseLiteral(t, p, <<"t", "r", "u", "e">>)
           [] t[p + 1] = "f" -> ParseLiteral(t, p, <<"f", "a", "l", "s", "e">>)
           [] t[p + 1] = "n" -> ParseLiteral(t, p, <<"n", "u", "l", "l">>)
           [] OTHER -> ParseNumber(t, p)

\* JSON.parse(t): [ok |-> FALSE] stands for the SyntaxError it throws
WholeText(t, r) ==
    IF r.ok /\ SkipWs(t, r.p) = Len(t) THEN r ELSE JsonFail

JSONParse(t) == WholeText(t, ParseValue(t, SkipWs(t, 0)))

\* rec[key] of a parsed object: the last member of that name, if any
HasKey(rec, key) == \E j \in 1..Len(rec.v) : rec.v[j].key = key
GetKey(rec, key) ==
    rec.v[SetMax({j \in 1..Len(rec.v) : rec.v[j].key = key})].value

(***************************************************************************)
(* Failures.  A thrown Error is the kind of its message and the values the *)
(* message names.                                                          *)
(***************************************************************************)
NoNum == [k |-> "none", s |-> 1, i |-> 0, f |-> <<>>]
Error(kind, name, id, index) ==
    [kind |-> kind, name |-> name, id |-> id, index |-> index]
NoError == Error("none", "", NoNum, -1)

NoValue == <<>>
Return(value) == [ok |-> TRUE, value |-> value, error |-> NoError]
Throw(error)  == [ok |-> FALSE, value |-> NoValue, error |-> error]

(***************************************************************************)
(* replacer.ts: parseResponse.                                             *)
(***************************************************************************)
Fence == <<Backtick, Backtick, Backtick>>
\* /^'''(?:json)?\s*\n?/i, with ' for the backtick
FenceOpenRE ==
    Cat(<<Lit(Fence),
          Opt(Cat(<<Chr({"j", "J"}), Chr({"s", "S"}), Chr({"o", "O"}),
                    Chr({"n", "N"})>>)),
          Star(Ws), Opt(Lit(<<"\n">>))>>)
\* /\n?'''\s*$/
FenceCloseRE == Cat(<<Opt(Lit(<<"\n">>)), Lit(Fence), Star(Ws), EndOfText>>)

\* t.replace(pattern, ""), m the first match of the pattern
Remove(t, m) ==
    IF m = NoMatch THEN t ELSE Slice(t, 0, m.start) \o SliceFrom(t, m.end)

\* the match of a pattern that starts with ^
MatchAtStart(es) ==
    IF es = <<>> THEN NoMatch ELSE [start |-> 0, end |-> es[1]]

StripFenceOpen(t) == Remove(t, MatchAtStart(Ends(FenceOpenRE, t, 0)))

StripFenceClose(t) == Remove(t, Exec(FenceCloseRE, t, 0))

Cleaned(response) == Trim(StripFenceClose(StripFenceOpen(Trim(response))))

IsArray(r) == r.ok /\ r.v.t = "arr"

\* cleaned.indexOf("]"): the first one, not the last
IndexOf(t, c) ==
    LET at == {j \in 0..(Len(t) - 1) : t[j + 1] = c}
    IN  IF at = {} THEN -1 ELSE SetMin(at)

LastIndexOf(t, c) ==
    LET at == {j \in 0..(Len(t) - 1) : t[j + 1] = c}
    IN  IF at = {} THEN -1 ELSE SetMax(at)

\* the loop over the "[" before the last "]": parses[b] is the parse of
\* the slice from offset b, and the first offset whose slice parses to an
\* array ends the loop
FirstArray(parses) ==
    LET starts == {b \in DOMAIN parses : IsArray(parses[b])}
    IN  IF starts = {} THEN Throw(Error("NoJsonArray", "", NoNum, -1))
        ELSE Return(parses[SetMin(starts)].v.v)

\* the loop of lines 37-48 ended after the first "["
BracketScanFirstOnly(cleaned, end) ==
    IF end = -1 THEN Throw(Error("NoJsonArray", "", NoNum, -1))
    ELSE FirstArray([b \in {c \in 0..(end - 1) :
                               /\ cleaned[c + 1] = "["
                               /\ \A d \in 0..(c - 1) : cleaned[d + 1] # "["}
                        |-> JSONParse(Slice(cleaned, b, end + 1))])

BracketScan(cleaned, end) ==
    IF end = -1 THEN Throw(Error("NoJsonArray", "", NoNum, -1))
    ELSE FirstArray([b \in 0..(end - 1) |->
                        IF cleaned[b + 1] = "["
                        THEN JSONParse(Slice(cleaned, b, end + 1))
                        ELSE JsonFail])

StrictOrScan(cleaned, strict) ==
    IF IsArray(strict) THEN Return(strict.v.v)
    ELSE BracketScan(cleaned, LastIndexOf(cleaned, "]"))

\* the items of the array of the reply, or the failure of lines 34 and 52
ParsedArray(cleaned) == StrictOrScan(cleaned, JSONParse(cleaned))

KeyId == <<"i", "d">>
KeyCitation == <<"c", "i", "t", "a", "t", "i", "o", "n">>

\* typeof rec === "object" && rec !== null && typeof rec.id === "number"
\*   && typeof rec.citation === "string"
IsCorrectionShape(item) ==
    /\ item.t = "obj"
    /\ HasKey(item, KeyId) /\ GetKey(item, KeyId).t = "num"
    /\ HasKey(item, KeyCitation) /\ GetKey(item, KeyCitation).t = "str"

\* parsed.map(...) without the test of line 77
RECURSIVE MapItemsAnyIds(_, _, _, _)
MapItemsAnyIds(items, idx, seenIds, acc) ==
    IF idx >= Len(items) THEN Return(acc)
    ELSE LET item == items[idx + 1]
             correction == [id |-> GetKey(item, KeyId).v,
                            citation |-> GetKey(item, KeyCitation).v]
         IN  IF ~IsCorrectionShape(item)
             THEN Throw(Error("InvalidCorrection", "", NoNum, idx))
             ELSE IF Len(Trim(correction.citation)) = 0
             THEN Throw(Error("EmptyCitation", "", correction.id, idx))
             ELSE MapItemsAnyIds(items, idx + 1, seenIds \cup {correction.id},
                                 Append(acc, correction))

\* parsed.map(...), from the item at index idx on
RECURSIVE MapItems(_, _, _, _)
MapItems(items, idx, seenIds, acc) ==
    IF idx >= Len(items) THEN Return(acc)
    ELSE LET item == items[idx + 1]
             correction == [id |-> GetKey(item, KeyId).v,
                            citation |-> GetKey(item, KeyCitation).v]
         IN  IF ~IsCorrectionShape(item)
             THEN Throw(Error("InvalidCorrection", "", NoNum, idx))
             ELSE IF Len(Trim(correction.citation)) = 0
             THEN Throw(Error("EmptyCitation", "", correction.id, idx))
             ELSE IF correction.id \in seenIds
             THEN Throw(Error("DuplicateId", "", correction.id, idx))
             ELSE MapItems(items, idx + 1, seenIds \cup {correction.id},
                           Append(acc, correction))

MapParsed(parsed) ==
    IF ~parsed.ok THEN parsed ELSE MapItems(parsed.value, 0, {}, <<>>)

parseResponse(response) == MapParsed(ParsedArray(Cleaned(response)))

(***************************************************************************)
(* replacer.ts: applyCorrections.                                          *)
(***************************************************************************)
\* Map.prototype.set: a new key goes last, a known key keeps its place
MapHas(map, key) == \E j \in 1..Len(map) : map[j].key = key
MapGet(map, key) == map[CHOOSE j \in 1..Len(map) : map[j].key = key].value
MapSet(map, key, value) ==
    IF MapHas(map, key)
    THEN [j \in 1..Len(map) |->
             IF map[j].key = key THEN [key |-> key, value |-> value]
             ELSE map[j]]
    ELSE Append(map, [key |-> key, value |-> value])

RECURSIVE CorrectionMap(_, _)
CorrectionMap(corrections, map) ==
    IF corrections = <<>> THEN map
    ELSE CorrectionMap(Tail(corrections),
                       MapSet(map, Head(corrections).id,
                              Head(corrections).citation))

\* new Set(ids): the distinct ids in the order of their first occurrence
IdSet(ids) == Dedup(ids)
IdsOf(contexts) == [j \in 1..Len(contexts) |-> contexts[j].id]
KeysOf(map) == [j \in 1..Len(map) |-> map[j].key]
InSeq(x, seq) == \E j \in 1..Len(seq) : seq[j] = x
\* the first element of seq that is not in others, for a seq that has one
FirstNotIn(seq, others) ==
    seq[SetMin({j \in 1..Len(seq) : ~InSeq(seq[j], others)})]

\* the changes without the test replacement !== ctx.original
ChangesOfAll(contexts, map) ==
    [j \in 1..Len(contexts) |->
        [context |-> contexts[j],
         replacement |-> MapGet(map, contexts[j].id)]]

\* the changes: the contexts whose replacement differs from the original
WithReplacements(picked, map) ==
    [j \in 1..Len(picked) |->
        [context |-> picked[j], replacement |-> MapGet(map, picked[j].id)]]

ChangesOf(contexts, map) ==
    WithReplacements(
        SelectSeq(contexts, LAMBDA ctx : MapGet(map, ctx.id) # ctx.original),
        map)

\* the insertion of changes.sort((a, b) => a.context.start - b.context.start)
RECURSIVE InsertChangeAscending(_, _)
InsertChangeAscending(s, c) ==
    IF s = <<>> THEN <<c>>
    ELSE IF Head(s).context.start - c.context.start <= 0
         THEN <<Head(s)>> \o InsertChangeAscending(Tail(s), c)
         ELSE <<c>> \o s

\* changes.sort((a, b) => b.context.start - a.context.start), stable
RECURSIVE InsertChange(_, _)
InsertChange(s, c) ==
    IF s = <<>> THEN <<c>>
    ELSE IF c.context.start - Head(s).context.start <= 0
         THEN <<Head(s)>> \o InsertChange(Tail(s), c)
         ELSE <<c>> \o s

RECURSIVE SortChanges(_)
SortChanges(cs) ==
    IF cs = <<>> THEN <<>>
    ELSE InsertChange(SortChanges(SubSeq(cs, 1, Len(cs) - 1)), cs[Len(cs)])

SnippetWidth == 30

\* one splice: result.slice(0, start) + replacement + result.slice(end)
Splice(result, ctx, replacement) ==
    Slice(result, 0, ctx.start) \o replacement \o SliceFrom(result, ctx.end)

\* the record with position: ctx.end
AppliedCorrectionAtEnd(ctx, replacement) ==
    [position    |-> ctx.end,
     original    |-> ctx.original,
     replacement |-> replacement,
     context     |-> SliceFrom(ctx.before, -SnippetWidth) \o <<"[">>
                     \o ctx.original \o <<Arrow>> \o replacement \o <<"]">>
                     \o Slice(ctx.after, 0, SnippetWidth)]

AppliedCorrection(ctx, replacement) ==
    [position    |-> ctx.start,
     original    |-> ctx.original,
     replacement |-> replacement,
     context     |-> SliceFrom(ctx.before, -SnippetWidth) \o <<"[">>
                     \o ctx.original \o <<Arrow>> \o replacement \o <<"]">>
                     \o Slice(ctx.after, 0, SnippetWidth)]

\* the splice loop over the sorted changes
RECURSIVE ApplyChanges(_, _, _)
ApplyChanges(changes, result, applied) ==
    IF changes = <<>> THEN [text |-> result, appliedCorrections |-> applied]
    ELSE ApplyChanges(Tail(changes),
             Splice(result, Head(changes).context, Head(changes).replacement),
             Append(applied, AppliedCorrection(Head(changes).context,
                                               Head(changes).replacement)))

Reverse(seq) == [j \in 1..Len(seq) |-> seq[Len(seq) + 1 - j]]

\* the return without appliedCorrections.reverse()
NotReversed(done) ==
    Return([text |-> done.text, appliedCorrections |-> done.appliedCorrections])

\* appliedCorrections.reverse() and the return
Reversed(done) ==
    Return([text |-> done.text,
            appliedCorrections |-> Reverse(done.appliedCorrections)])

\* lines 104-154 without the loop of lines 113-117
ApplyMappedOneWay(text, contexts, correctionMap, contextIds, keys) ==
    IF \E j \in 1..Len(contextIds) : ~InSeq(contextIds[j], keys)
    THEN Throw(Error("MissingCorrection", "",
                     FirstNotIn(contextIds, keys), -1))
    ELSE Return([text |-> ApplyChanges(
                              SortChanges(ChangesOf(contexts, correctionMap)),
                              text, <<>>).text,
                 appliedCorrections |->
                     Reverse(ApplyChanges(
                         SortChanges(ChangesOf(contexts, correctionMap)),
                         text, <<>>).appliedCorrections)])

\* lines 104-154, with the map and the id set of lines 99-105
ApplyMapped(text, contexts, correctionMap, contextIds, keys) ==
    IF \E j \in 1..Len(contextIds) : ~InSeq(contextIds[j], keys)
    THEN Throw(Error("MissingCorrection", "",
                     FirstNotIn(contextIds, keys), -1))
    ELSE IF \E j \in 1..Len(keys) : ~InSeq(keys[j], contextIds)
    THEN Throw(Error("UnknownCorrection", "",
                     FirstNotIn(keys, contextIds), -1))
    ELSE Reversed(ApplyChanges(
                      SortChanges(ChangesOf(contexts, correctionMap)),
                      text, <<>>))

applyCorrections(text, contexts, corrections) ==
    ApplyMapped(text, contexts, CorrectionMap(corrections, <<>>),
                IdSet(IdsOf(contexts)),
                KeysOf(CorrectionMap(corrections, <<>>)))

(***************************************************************************)
(* prompt.ts: buildMessages.                                               *)
(***************************************************************************)
RECURSIVE NatToChars(_)
NatToChars(n) ==
    IF n < 10 THEN <<ToString(n)>>
    ELSE NatToChars(n \div 10) \o <<ToString(n % 10)>>

\* String(v) of a finite number
NumToChars(v) ==
    (IF v.s = -1 THEN <<"-">> ELSE <<>>) \o NatToChars(v.i)
    \o (IF v.f = <<>> THEN <<>> ELSE <<".">> \o v.f)

RECURSIVE Join(_, _)
Join(parts, sep) ==
    IF parts = <<>> THEN <<>>
    ELSE IF Len(parts) = 1 THEN parts[1]
    ELSE parts[1] \o sep \o Join(Tail(parts), sep)

\* The fixed text of the system prompt before and after the rule block; each
\* stands for the characters of lines 18 and 20-34.
SystemHead == "You are a legal citation expert"
SystemTail == "Your task is to correct each citation below"

\* rules ? `\n${rules}\n` : ""
RuleBlock(rules) ==
    IF rules # <<>> THEN <<"\n">> \o rules \o <<"\n">> ELSE <<>>

\* [id] "before" [original] "after"
ContextLine(ctx) ==
    <<"[">> \o NumToChars(ctx.id) \o <<"]", " ", LeftQuote>> \o ctx.before
    \o <<RightQuote, " ", "[">> \o ctx.original \o <<"]", " ", LeftQuote>>
    \o ctx.after \o <<RightQuote>>

buildMessages(contexts, rules) ==
    <<[role |-> "system",
       content |-> <<SystemHead, "\n">> \o RuleBlock(rules)
                   \o <<"\n", SystemTail>>],
      [role |-> "user",
       content |-> Join([j \in 1..Len(contexts) |-> ContextLine(contexts[j])],
                        <<"\n">>)]>>

(***************************************************************************)
(* core.ts: requireInt, validateBatchIds.                                  *)
(***************************************************************************)
\* requireInt without the test Math.floor(value) !== value
requireIntNoFloor(value, name, min) ==
    IF ~IsFinite(value) \/ LessThanInt(value, min)
    THEN Throw(Error("InvalidOption", name, value, min))
    ELSE Return(ToInt(value))

requireInt(value, name, min) ==
    IF ~IsFinite(value) \/ LessThanInt(value, min) \/ ~IsWhole(value)
    THEN Throw(Error("InvalidOption", name, value, min))
    ELSE Return(ToInt(value))

\* validateBatchIds without its first loop (lines 19-23)
\* validateBatchIds without the loop of lines 24-28
validateBatchIdsUnexpectedOnly(corrections, expectedIds) ==
    IF \E j \in 1..Len(corrections) : ~InSeq(corrections[j].id, expectedIds)
    THEN Throw(Error("UnexpectedId", "",
                     FirstNotIn(IdsOf(corrections), expectedIds), -1))
    ELSE Return(corrections)

validateBatchIdsMissingOnly(corrections, expectedIds) ==
    IF \E j \in 1..Len(expectedIds) :
            ~InSeq(expectedIds[j], IdsOf(corrections))
    THEN Throw(Error("MissingInBatch", "",
                     FirstNotIn(expectedIds, IdsOf(corrections)), -1))
    ELSE Return(corrections)

\* expectedIds: the ids of the batch, a Set in batch order
validateBatchIds(corrections, expectedIds) ==
    IF \E j \in 1..Len(corrections) : ~InSeq(corrections[j].id, expectedIds)
    THEN Throw(Error("UnexpectedId", "",
                     FirstNotIn(IdsOf(corrections), expectedIds), -1))
    ELSE IF \E j \in 1..Len(expectedIds) :
                ~InSeq(expectedIds[j], IdsOf(corrections))
    THEN Throw(Error("MissingInBatch", "",
                     FirstNotIn(expectedIds, IdsOf(corrections)), -1))
    ELSE Return(corrections)

(***************************************************************************)
(* core.ts: bluebookify, one run of it.  The run is suspended only at      *)
(* `await llmFn(messages)`: Start is the code up to the first call (or the *)
(* return or throw before it), OracleResolves and OracleRejects are the    *)
(* code from the settling of the pending call to the next call or the end. *)
(***************************************************************************)
VARIABLES
    text,            \* the text argument
    options,         \* the options argument
    pc,              \* where the run is
    batchSize,       \* const batchSize (0 before it is set)
    contexts,        \* const contexts
    i,               \* the loop variable
    allCorrections,  \* const allCorrections
    calls,           \* the messages llmFn was called with, in call order
    settled,         \* how each call settled: Return(response) or Throw(err)
    events,          \* the extraction, calls, replies and accepted batches,
                     \* in order, each with the value of i
    result,          \* the value the run returned
    error,           \* the Error the run threw
    allMatches,      \* extractCitations' allMatches, as the matchers left it
    signals,         \* extractCitations' signals
    merged,          \* extractCitations' merged, before the signal loop
    reply,           \* parseResponse's response
    parsedItems      \* parseResponse's parsed at line 51: Return(its items),
                     \* or the Throw of lines 34 and 52

vars == <<text, options, pc, batchSize, contexts, i, allCorrections, calls,
          settled, events, result, error, allMatches, signals, merged,
          reply, parsedItems>>

\* the locals of extractCitations and of parseResponse: kept where these
\* are run on their own, gone when they have returned inside a run of
\* bluebookify
locals == <<allMatches, signals, merged, reply, parsedItems>>

DefaultBatchSize == 20
DefaultContextSize == 100

NoResult == [text |-> <<>>, corrections |-> <<>>, unchanged |-> FALSE]

\* value ?? fallback
OrDefault(value, fallback) ==
    IF value = Undefined THEN IntNum(fallback) ELSE value

\* resolveLlm(options, "bluebookify"): throws unless the options bind an oracle
resolveLlm(opts) ==
    IF opts.llm = "none" THEN Throw(Error("NoLlm", "", NoNum, -1))
    ELSE Return(opts.llm)

\* lines 45-51, after the check of line 41
Checked(bs, cs, llm) ==
    IF ~bs.ok THEN bs
    ELSE IF ~cs.ok THEN cs
    ELSE IF ~llm.ok THEN llm
    ELSE Return([batchSize |-> bs.value, contextSize |-> cs.value])

\* lines 41-51: the checks before extraction
Prologue(opts) ==
    IF ~opts.given THEN Throw(Error("NoOptions", "", NoNum, -1))
    ELSE Checked(requireInt(OrDefault(opts.batchSize, DefaultBatchSize),
                            "batchSize", 1),
                 requireInt(OrDefault(opts.contextSize, DefaultContextSize),
                            "contextSize", 0),
                 resolveLlm(opts))

\* contexts.slice(from, from + size + 1)
BatchAtInclusive(ctxs, from, size) ==
    SubSeq(ctxs, from + 1, Min(from + size + 1, Len(ctxs)))

\* contexts.slice(from, from + size)
BatchAt(ctxs, from, size) == SubSeq(ctxs, from + 1, Min(from + size, Len(ctxs)))

Event(e, at) == [e |-> e, at |-> at]

Fails(err) ==
    /\ pc' = "failed"
    /\ error' = err
    /\ result' = NoResult

Returns(value) ==
    /\ pc' = "done"
    /\ result' = value
    /\ error' = NoError

\* the calls for the batch at offset from and for the one after it, issued
\* together
CallsOracleAhead(ctxs, from, size, before) ==
    /\ pc' = "awaiting"
    /\ calls' = calls
                 \o <<buildMessages(SubSeq(ctxs, from + 1,
                                           Min(from + size, Len(ctxs))),
                                    options.rules),
                      buildMessages(SubSeq(ctxs, from + size + 1,
                                           Min(from + 2 * size, Len(ctxs))),
                                    options.rules)>>
    /\ events' = before \o <<Event("call", from), Event("call", from + size)>>
    /\ result' = NoResult
    /\ error' = NoError

\* llmFn(buildMessages(batch, options.rules)) for the batch at offset from
CallsOracle(ctxs, from, size, before) ==
    /\ pc' = "awaiting"
    /\ calls' = Append(calls, buildMessages(BatchAt(ctxs, from, size),
                                            options.rules))
    /\ events' = Append(before, Event("call", from))
    /\ result' = NoResult
    /\ error' = NoError

\* lines 54-66 without the return of lines 56-58
ExtractedCallsAnyway(size, ctxs) ==
    /\ batchSize' = size
    /\ contexts' = ctxs
    /\ i' = 0
    /\ pc' = "awaiting"
    /\ calls' = Append(calls, buildMessages(SubSeq(ctxs, 1, Min(size, Len(ctxs))),
                                            options.rules))
    /\ events' = events \o <<Event("extracted", 0), Event("call", 0)>>
    /\ result' = NoResult
    /\ error' = NoError

\* lines 54-66: from the extraction to the first call
Extracted(size, ctxs) ==
    /\ batchSize' = size
    /\ contexts' = ctxs
    /\ IF Len(ctxs) = 0
       THEN /\ Returns([text |-> text, corrections |-> <<>>,
                        unchanged |-> TRUE])
            /\ events' = Append(events, Event("extracted", 0))
            /\ UNCHANGED <<i, calls>>
       ELSE /\ i' = 0
            /\ CallsOracle(ctxs, 0, size,
                           Append(events, Event("extracted", 0)))

Begun(pro) ==
    IF ~pro.ok
    THEN /\ Fails(pro.error)
         /\ UNCHANGED <<batchSize, contexts, i, calls, events>>
    ELSE Extracted(pro.value.batchSize,
                   extractCitations(text, pro.value.contextSize))

Start ==
    /\ pc = "start"
    /\ Begun(Prologue(options))
    /\ UNCHANGED <<text, options, allCorrections, settled>>
    /\ UNCHANGED locals

\* lines 74-80: after the loop
\* unchanged told from the text, not from the change list
FinishedByText(applied) ==
    IF ~applied.ok THEN Fails(applied.error)
    ELSE Returns([text |-> applied.value.text,
                  corrections |-> applied.value.appliedCorrections,
                  unchanged |-> applied.value.text = text])

Finished(applied) ==
    IF ~applied.ok THEN Fails(applied.error)
    ELSE Returns([text |-> applied.value.text,
                  corrections |-> applied.value.appliedCorrections,
                  unchanged |-> Len(applied.value.appliedCorrections) = 0])

\* lines 70-71 and the next turn of the loop, or its end
Accepted(all, next, replied) ==
    /\ allCorrections' = all
    /\ i' = next
    /\ IF next < Len(contexts)
       THEN CallsOracle(contexts, next, batchSize,
                        Append(replied, Event("accepted", i)))
       ELSE /\ events' = Append(replied, Event("accepted", i))
            /\ UNCHANGED calls
            /\ Finished(applyCorrections(text, contexts, all))

\* line 69
Validated(valid, replied) ==
    IF ~valid.ok
    THEN /\ Fails(valid.error)
         /\ events' = replied
         /\ UNCHANGED <<i, allCorrections, calls>>
    ELSE Accepted(allCorrections \o valid.value, i + batchSize, replied)

\* line 67
Parsed(parsed, replied) ==
    IF ~parsed.ok
    THEN /\ Fails(parsed.error)
         /\ events' = replied
         /\ UNCHANGED <<i, allCorrections, calls>>
    ELSE Validated(validateBatchIds(parsed.value,
                       IdSet(IdsOf(BatchAt(contexts, i, batchSize)))),
                   replied)

\* the pending call resolves with `response`
OracleResolves(response) ==
    /\ pc = "awaiting"
    /\ Parsed(parseResponse(response), Append(events, Event("reply", i)))
    /\ settled' = Append(settled, Return(response))
    /\ UNCHANGED <<text, options, batchSize, contexts>>
    /\ UNCHANGED locals

\* the pending call rejects with `err` and is made again
OracleRejectsRetrying(err) ==
    /\ pc = "awaiting"
    /\ calls' = Append(calls, calls[Len(calls)])
    /\ events' = events \o <<Event("rejected", i), Event("call", i)>>
    /\ settled' = Append(settled, Throw(err))
    /\ UNCHANGED <<text, options, pc, batchSize, contexts, i, allCorrections,
                   result, error>>
    /\ UNCHANGED locals

\* the pending call rejects with `err`
OracleRejects(err) ==
    /\ pc = "awaiting"
    /\ Fails(err)
    /\ events' = Append(events, Event("rejected", i))
    /\ settled' = Append(settled, Throw(err))
    /\ UNCHANGED <<text, options, batchSize, contexts, i, allCorrections,
                   calls>>
    /\ UNCHANGED locals

(***************************************************************************)
(* The inputs of a run: texts, options and what the oracle answers.        *)
(***************************************************************************)
MaxChunks == 3
MaxBatchSize == 2
MaxReplyRecords == 2

RECURSIVE Concat(_)
Concat(parts) ==
    IF parts = <<>> THEN <<>> ELSE Head(parts) \o Concat(Tail(parts))

SeqsUpTo(S, n) == UNION {[1..m -> S] : m \in 0..n}

\* "Id. " and "x ": a citation and a word
IdChunk == <<"I", "d", ".", " ">>
WordChunk == <<"x", " ">>
\* "Id. at 5 ": a citation with a pincite
PinChunk == <<"I", "d", ".", " ", "a", "t", " ", "5", " ">>
\* the texts of n chunks, k citations and then n - k words, and the text of
\* a citation with a pincite and one without
RunTexts ==
    {Concat([j \in 1..n |-> IF j <= k THEN IdChunk ELSE WordChunk]) :
        n \in 0..MaxChunks, k \in 0..MaxChunks}
    \cup {PinChunk \o IdChunk}

Half == Fin(1, 0, <<"5">>)
OneAndHalf == Fin(1, 1, <<"5">>)
BatchSizes ==
    {Undefined} \cup {IntNum(n) : n \in -1..MaxBatchSize}
    \cup {OneAndHalf, NaN, Infinity}
ContextSizes == {Undefined, IntNum(0), IntNum(-1), Half, NaN}

\* the options {llm}, and the options that differ from them: in the sizes,
\* in the rules, in the oracle (with and without a size that is no size),
\* and no options at all
PlainOptions ==
    [given |-> TRUE, batchSize |-> Undefined, contextSize |-> Undefined,
     rules |-> <<>>, llm |-> "function"]
RunOptions ==
    {[PlainOptions EXCEPT !.batchSize = b, !.contextSize = c] :
        b \in BatchSizes, c \in ContextSizes}
    \cup {[PlainOptions EXCEPT !.rules = <<"r">>],
          [PlainOptions EXCEPT !.llm = "none"],
          [PlainOptions EXCEPT !.llm = "none", !.batchSize = IntNum(0)],
          [PlainOptions EXCEPT !.llm = "none", !.contextSize = Half],
          [PlainOptions EXCEPT !.given = FALSE]}

\* the oracle's reply text for a list of corrections
RecordText(rec) ==
    <<"{", Quote, "i", "d", Quote, ":">> \o NumToChars(rec.id)
    \o <<",", Quote, "c", "i", "t", "a", "t", "i", "o", "n", Quote, ":",
         Quote>> \o rec.citation \o <<Quote, "}">>
ArrayText(recs) ==
    <<"[">> \o Join([j \in 1..Len(recs) |-> RecordText(recs[j])], <<",">>)
    \o <<"]">>

\* what the oracle may answer for a span: its text unchanged, or "X"
Replacement == <<"X">>

\* an id that is not of the batch: the first id of another batch, or the
\* id after the last span's
OtherId(ctxs, batch) ==
    IF \E j \in 1..Len(ctxs) : ~InSeq(ctxs[j].id, IdsOf(batch))
    THEN FirstNotIn(IdsOf(ctxs), IdsOf(batch))
    ELSE IntNum(Len(ctxs))

\* the part of a citation before its first blank (the citation, if it has
\* none) and the part after it
Blanks(t) == {j \in 1..Len(t) : t[j] = " "}
BeforeBlank(t) ==
    IF Blanks(t) = {} THEN t ELSE SubSeq(t, 1, SetMin(Blanks(t)) - 1)
AfterBlank(t) ==
    IF Blanks(t) = {} THEN <<>> ELSE SubSeq(t, SetMin(Blanks(t)) + 1, Len(t))

\* the n-th span's text with the pincite of the span before it, and the
\* text between the two, put in front (its text, if there is none)
Carried(ctxs, n) ==
    IF n > 1 /\ AfterBlank(ctxs[n - 1].original) # <<>>
    THEN AfterBlank(ctxs[n - 1].original)
         \o SubSeq(text, ctxs[n - 1].end + 1, ctxs[n].start)
         \o ctxs[n].original
    ELSE ctxs[n].original

\* the records of a reply to the call for `batch`: for each span of the
\* batch its text, its text without its pincite, its text with the pincite
\* of the span before it or "X", and "X" for an id that is not of the batch
ReplyRecords(ctxs, batch) ==
    {[id |-> batch[j].id, citation |-> batch[j].original] :
        j \in 1..Len(batch)}
    \cup {[id |-> batch[j].id, citation |-> BeforeBlank(batch[j].original)] :
            j \in 1..Len(batch)}
    \cup {[id |-> batch[j].id,
            citation |-> Carried(ctxs, ToInt(batch[j].id) + 1)] :
            j \in 1..Len(batch)}
    \cup {[id |-> batch[j].id, citation |-> Replacement] : j \in 1..Len(batch)}
    \cup {[id |-> OtherId(ctxs, batch), citation |-> Replacement]}

\* the replies: arrays of records, a text that is no JSON, and an array of
\* a record without fields
OracleReplies(ctxs, batch) ==
    {ArrayText(recs) :
        recs \in SeqsUpTo(ReplyRecords(ctxs, batch), MaxReplyRecords)}
    \cup {<<"n", "o">>, <<"[", "{", "}", "]">>}
OracleErrors ==
    {Error("Oracle", "API rate limit", NoNum, -1),
     Error("Oracle", "timeout", NoNum, -1)}

Init ==
    /\ text \in RunTexts
    /\ options \in RunOptions
    /\ pc = "start"
    /\ batchSize = 0
    /\ contexts = <<>>
    /\ i = 0
    /\ allCorrections = <<>>
    /\ calls = <<>>
    /\ settled = <<>>
    /\ events = <<>>
    /\ result = NoResult
    /\ error = NoError
    /\ allMatches = <<>>
    /\ signals = <<>>
    /\ merged = <<>>
    /\ reply = <<>>
    /\ parsedItems = NoValue

Next ==
    \/ Start
    \/ /\ pc = "awaiting"
       /\ \E response \in OracleReplies(contexts,
                                        BatchAt(contexts, i, batchSize)) :
             OracleResolves(response)
    \/ \E err \in OracleErrors : OracleRejects(err)

Spec == Init /\ [][Next]_vars

(***************************************************************************)
(* extractCitations on its own: one call of it on a text put together from *)
(* the lexemes of citations, signals and other words.                      *)
(***************************************************************************)
MaxLexemes == 4

\* "Aa v. Bb, 1 U.S. 2"
CaseCitation ==
    <<"A", "a", " ", "v", ".", " ", "B", "b", ",", " ", "1", " ", "U", ".",
      "S", ".", " ", "2">>

\* "Id.", " at 5", " U.S.C. §1", " ", "See ", "x"
Lexemes ==
    {<<"I", "d", ".">>,
     <<" ", "a", "t", " ", "5">>,
     <<" ", "U", ".", "S", ".", "C", ".", " ", SectionSign, "1">>,
     <<" ">>,
     <<"S", "e", "e", " ">>,
     <<"x">>}

\* the texts of up to MaxLexemes lexemes, the case citation counting for two
ExtractTexts ==
    {Concat(ls) : ls \in SeqsUpTo(Lexemes, MaxLexemes)}
    \cup {Concat(ls) :
            ls \in SeqsUpTo(Lexemes \cup {CaseCitation}, MaxLexemes - 1)}
ExtractSizes == {0, 2, 100}

InitExtract ==
    /\ text \in ExtractTexts
    /\ options \in [given : {TRUE}, batchSize : {Undefined},
                    contextSize : {IntNum(n) : n \in ExtractSizes},
                    rules : {<<>>}, llm : {"function"}]
    /\ pc = "start"
    /\ batchSize = 0
    /\ contexts = <<>>
    /\ i = 0
    /\ allCorrections = <<>>
    /\ calls = <<>>
    /\ settled = <<>>
    /\ events = <<>>
    /\ result = NoResult
    /\ error = NoError
    /\ allMatches = <<>>
    /\ signals = <<>>
    /\ merged = <<>>
    /\ reply = <<>>
    /\ parsedItems = NoValue

\* const contexts = extractCitations(text, contextSize), with its locals
Extract ==
    /\ pc = "start"
    /\ pc' = "extracted"
    /\ allMatches' = AllMatches(text)
    /\ signals' = Signals(text)
    /\ merged' = MergeMatches(text, SortMatches(allMatches'), <<>>)
    /\ contexts' = BuildContexts(text, FuseAll(text, merged', signals'),
                                 ToInt(options.contextSize))
    /\ UNCHANGED <<text, options, batchSize, i, allCorrections, calls,
                   settled, events, result, error, reply, parsedItems>>

SpecExtract == InitExtract /\ [][Extract]_vars

(***************************************************************************)
(* The merge of lines 80-95 on its own: up to MaxMatches matches of a text *)
(* of MaxOffset characters, in any order and with any overlap.             *)
(***************************************************************************)
MaxOffset == 4
MaxMatches == 3

MergeText == SubSeq(<<"a", "b", "c", "d", "e", "f", "g", "h">>, 1, MaxOffset)

\* the matches of a text t: {text, start, end} for each of its slices that
\* is not empty
MatchesOf(t) ==
    {[text |-> Slice(t, se[1], se[2]), start |-> se[1], end |-> se[2]] :
        se \in {p \in (0..Len(t)) \X (0..Len(t)) : p[1] < p[2]}}

InitMerge ==
    /\ text = MergeText
    /\ allMatches \in SeqsUpTo(MatchesOf(text), MaxMatches)
    /\ signals = <<>>
    /\ merged = <<>>
    /\ reply = <<>>
    /\ parsedItems = NoValue
    /\ options = PlainOptions
    /\ pc = "start"
    /\ batchSize = DefaultBatchSize
    /\ contexts = <<>>
    /\ i = 0
    /\ allCorrections = <<>>
    /\ calls = <<>>
    /\ settled = <<>>
    /\ events = <<>>
    /\ result = NoResult
    /\ error = NoError

\* lines 80-95
Merge ==
    /\ pc = "start"
    /\ pc' = "merged"
    /\ merged' = MergeMatches(text, SortMatches(allMatches), <<>>)
    /\ UNCHANGED <<text, options, batchSize, contexts, i, allCorrections,
                   calls, settled, events, result, error, allMatches,
                   signals, reply, parsedItems>>

SpecMerge == InitMerge /\ [][Merge]_vars

(***************************************************************************)
(* applyCorrections on its own, as lines 74-80 of core.ts call it: spans   *)
(* that do not overlap, given in any order, and a list of corrections.     *)
(***************************************************************************)
MaxTextLen == 5
MaxSpans == 2

Alphabet == <<"a", "b", "c", "d", "e", "f", "g", "h">>
ApplyTexts == {SubSeq(Alphabet, 1, n) : n \in 0..MaxTextLen}

\* the spans of a text t, as extractCitations has them before it builds the
\* contexts
SpansOf(t) ==
    {[text |-> Slice(t, se[1], se[2]), start |-> se[1], end |-> se[2]] :
        se \in {p \in (0..Len(t)) \X (0..Len(t)) : p[1] < p[2]}}

Apart(spans) ==
    \A j, k \in 1..Len(spans) :
        j # k => \/ spans[j].end <= spans[k].start
                 \/ spans[k].end <= spans[j].start

SpanLists(t) == {spans \in SeqsUpTo(SpansOf(t), MaxSpans) : Apart(spans)}

\* what a correction may put for a span: its text, nothing, one character,
\* or a longer text
ReplacementKinds == {"same", "empty", "one", "longer"}
ReplacementOf(kind, original) ==
    CASE kind = "same"   -> original
      [] kind = "empty"  -> <<>>
      [] kind = "one"    -> <<"X">>
      [] kind = "longer" -> original \o <<"Y", "Z">>

\* one correction per span, in the order of the spans
CorrectionsFor(ctxs, kinds) ==
    [j \in 1..Len(ctxs) |->
        [id |-> ctxs[j].id,
         citation |-> ReplacementOf(kinds[j], ctxs[j].original)]]

\* a list of corrections, and the lists it gives: itself, its reverse, itself
\* without its last correction, itself with one for no span added, itself
\* with its last correction given the id of no span, and itself with a
\* second correction "Q" added for the id of one of its own
Variants(ctxs, corrections) ==
    {Append(corrections, [id |-> corrections[n].id, citation |-> <<"Q">>]) :
        n \in 1..Len(corrections)}
    \cup
    {corrections,
     Reverse(corrections),
     SubSeq(corrections, 1, Len(corrections) - 1),
     Append(corrections, [id |-> IntNum(Len(ctxs)), citation |-> <<"X">>]),
     [n \in 1..Len(corrections) |->
         IF n = Len(corrections)
         THEN [corrections[n] EXCEPT !.id = IntNum(Len(ctxs))]
         ELSE corrections[n]]}

CorrectionLists(ctxs) ==
    UNION {Variants(ctxs, CorrectionsFor(ctxs, kinds)) :
           kinds \in [1..Len(ctxs) -> ReplacementKinds]}

InitApply ==
    /\ text \in ApplyTexts
    /\ contexts \in {BuildContexts(text, spans, DefaultContextSize) :
                        spans \in SpanLists(text)}
    /\ allCorrections \in CorrectionLists(contexts)
    /\ options = [given |-> TRUE, batchSize |-> Undefined,
                  contextSize |-> Undefined, rules |-> <<>>,
                  llm |-> "function"]
    /\ pc = "start"
    /\ batchSize = DefaultBatchSize
    /\ i = 0
    /\ calls = <<>>
    /\ settled = <<>>
    /\ events = <<>>
    /\ result = NoResult
    /\ error = NoError
    /\ allMatches = <<>>
    /\ signals = <<>>
    /\ merged = <<>>
    /\ reply = <<>>
    /\ parsedItems = NoValue

\* lines 74-80 of core.ts
Apply ==
    /\ pc = "start"
    /\ Finished(applyCorrections(text, contexts, allCorrections))
    /\ UNCHANGED <<text, options, batchSize, contexts, i, allCorrections,
                   calls, settled, events>>
    /\ UNCHANGED locals

SpecApply == InitApply /\ [][Apply]_vars

(***************************************************************************)
(* parseResponse on its own: one call of it on a reply, which is an array  *)
(* of up to MaxItems elements, or an array of corrections with a fence or  *)
(* with prose around it, or no array.                                      *)
(***************************************************************************)
MaxItems == 2

JsonString(w) == <<Quote>> \o w \o <<Quote>>
JsonObject(members) ==
    <<"{">>
    \o Join([j \in 1..Len(members) |->
                JsonString(members[j][1]) \o <<":">> \o members[j][2]],
            <<",">>)
    \o <<"}">>
JsonArray(elements) == <<"[">> \o Join(elements, <<",">>) \o <<"]">>

\* {"id": id, "citation": citation}, for the texts of two values
RecordOfTexts(id, citation) ==
    JsonObject(<< <<KeyId, id>>, <<KeyCitation, citation>> >>)

\* the corrections of the replies: {id: 0, citation: "X"} and
\* {id: 1, citation: "[Y]"}
GoodRecords ==
    {[id |-> IntNum(0), citation |-> <<"X">>],
     [id |-> IntNum(1), citation |-> <<"[", "Y", "]">>]}

\* what else an array may hold: 1, null, "s", [], records without a field,
\* with an id that is a string or 1.5, with a citation that is a number,
\* empty or a blank
OtherElements ==
    {<<"1">>,
     <<"n", "u", "l", "l">>,
     JsonString(<<"s">>),
     <<"[", "]">>,
     JsonObject(<< <<KeyId, <<"0">> >> >>),
     JsonObject(<< <<KeyCitation, JsonString(<<"X">>)>> >>),
     RecordOfTexts(JsonString(<<"0">>), JsonString(<<"X">>)),
     RecordOfTexts(<<"1", ".", "5">>, JsonString(<<"X">>)),
     RecordOfTexts(<<"0">>, <<"5">>),
     RecordOfTexts(<<"0">>, JsonString(<<>>)),
     RecordOfTexts(<<"0">>, JsonString(<<" ">>))}

ElementTexts == {RecordText(rec) : rec \in GoodRecords} \cup OtherElements

\* the arrays of corrections with ids that differ
GoodArrays ==
    {recs \in SeqsUpTo(GoodRecords, MaxItems) :
        \A j, k \in 1..Len(recs) : j # k => recs[j].id # recs[k].id}

\* what may stand around the array, before and after it: nothing; a fence
\* with and without the tag json; the prose "Hi: " before, " ok." after, or
\* both; the phrase "[n] " before; the prose " [x" or " [1]" after
NoProse == <<>>
FenceJson == <<Backtick, Backtick, Backtick, "j", "s", "o", "n", "\n">>
FenceBare == <<Backtick, Backtick, Backtick, "\n">>
FenceEnd == <<"\n", Backtick, Backtick, Backtick>>
ProseBefore == <<"H", "i", ":", " ">>
ProseAfter == <<" ", "o", "k", ".">>
PhraseBefore == <<"[", "n", "]", " ">>
OpenAfter == <<" ", "[", "x">>
BracketAfter == <<" ", "[", "1", "]">>

\* the wraps whose text after the array holds no "]", and all of them
PlainWraps ==
    {<<NoProse, NoProse>>, <<FenceJson, FenceEnd>>, <<FenceBare, FenceEnd>>,
     <<ProseBefore, NoProse>>, <<NoProse, ProseAfter>>,
     <<ProseBefore, ProseAfter>>, <<PhraseBefore, NoProse>>,
     <<PhraseBefore, ProseAfter>>, <<ProseBefore, OpenAfter>>}
Wraps == PlainWraps \cup {<<NoProse, BracketAfter>>}

Wrapped(wrap, array) == wrap[1] \o array \o wrap[2]

ParseReplies ==
    {JsonArray(els) : els \in SeqsUpTo(ElementTexts, MaxItems)}
    \cup {Wrapped(wrap, ArrayText(recs)) :
            wrap \in Wraps, recs \in GoodArrays}
    \cup {<<"n", "o">>, RecordText([id |-> IntNum(0), citation |-> <<"X">>])}
    \cup {PhraseBefore, <<"]", "[">>}

InitParse ==
    /\ reply \in ParseReplies
    /\ parsedItems = NoValue
    /\ text = <<>>
    /\ options = PlainOptions
    /\ pc = "start"
    /\ batchSize = DefaultBatchSize
    /\ contexts = <<>>
    /\ i = 0
    /\ allCorrections = <<>>
    /\ calls = <<>>
    /\ settled = <<>>
    /\ events = <<>>
    /\ result = NoResult
    /\ error = NoError
    /\ allMatches = <<>>
    /\ signals = <<>>
    /\ merged = <<>>

\* lines 59-84, with what they return put in allCorrections
Mapped(returned) ==
    IF returned.ok
    THEN /\ pc' = "done"
         /\ allCorrections' = returned.value
         /\ error' = NoError
    ELSE /\ pc' = "failed"
         /\ allCorrections' = <<>>
         /\ error' = returned.error

\* const corrections = parseResponse(response), with its local
Parse ==
    /\ pc = "start"
    /\ parsedItems' = ParsedArray(Cleaned(reply))
    /\ Mapped(MapParsed(parsedItems'))
    /\ UNCHANGED <<text, options, batchSize, contexts, i, calls, settled,
                   events, result, allMatches, signals, merged, reply>>

SpecParse == InitParse /\ [][Parse]_vars

(***************************************************************************)
(* What the history of a run says.                                         *)
(***************************************************************************)
\* the positions of `events` that hold an event of one of the kinds es
EventsOf(es) == {k \in 1..Len(events) : events[k].e \in es}

\* the spans the call at loop offset `from` is for, picked by id
SpansWithIds(from, upTo) ==
    [j \in 1..(upTo - from) |->
        CHOOSE ctx \in {contexts[n] : n \in 1..Len(contexts)} :
            ctx.id = IntNum(from + j - 1)]

\* the data message that lists exactly the spans `spans`, one per line
DataMessage(spans) ==
    [role |-> "user",
     content |-> Join([j \in 1..Len(spans) |-> ContextLine(spans[j])],
                      <<"\n">>)]

\* ceil(n / b)
CeilDiv(n, b) == (n + b - 1) \div b

\* the run has begun with options that pass the checks of lines 41-51
ValidRun == pc # "start" /\ Prologue(options).ok

\* C1: a text whose extraction yields no span, under valid options, ends the
\* run with no call to the oracle and the result {text, no corrections,
\* unchanged: true}.
C1_NoSpansNoCall ==
    (ValidRun /\ contexts = <<>>)
        => /\ pc = "done"
           /\ calls = <<>>
           /\ settled = <<>>
           /\ result = [text |-> text, corrections |-> <<>>,
                        unchanged |-> TRUE]

\* a run over a text with characters but no citation has returned
C1_Witness ==
    /\ pc = "done"
    /\ text = <<"x", " ", "x", " ">>
    /\ contexts = <<>>
    /\ calls = <<>>
    /\ result.unchanged

\* C2: with N >= 1 spans and batch size B, the k-th call (from 0) carries the
\* data message of exactly the spans with ids k*B .. min((k+1)*B, N)-1, in
\* that order, and a run whose replies were all accepted has ended, with
\* ceil(N/B) calls made.
C2_BatchPartition ==
    (ValidRun /\ Len(contexts) >= 1)
        => /\ \A k \in 1..Len(calls) :
                /\ (k - 1) * batchSize < Len(contexts)
                /\ Len(calls[k]) = 2
                /\ calls[k][2] =
                       DataMessage(SpansWithIds((k - 1) * batchSize,
                           Min(k * batchSize, Len(contexts))))
           /\ Cardinality(EventsOf({"accepted"})) = Len(calls)
                 => /\ pc = "done"
                    /\ Len(calls) = CeilDiv(Len(contexts), batchSize)

\* three spans in batches of two: two calls, the second for the last span
C2_Witness ==
    /\ pc = "done"
    /\ Len(contexts) = 3
    /\ batchSize = 2
    /\ Len(calls) = 2
    /\ Cardinality(EventsOf({"accepted"})) = 2

\* C3: the calls are strictly sequential and in batch order: no prefix of the
\* history has two calls outstanding, the first call is for offset 0, and
\* every later call comes directly after the previous batch's reply was
\* received and accepted (parsed and validated), for the next offset.
C3_Sequential ==
    /\ Cardinality(EventsOf({"call"})) = Len(calls)
    /\ \A k \in 1..Len(events) :
          LET issued   == {n \in 1..k : events[n].e = "call"}
              answered == {n \in 1..k : events[n].e \in {"reply", "rejected"}}
          IN  /\ Cardinality(issued) - Cardinality(answered) \in {0, 1}
              /\ events[k].e = "call" =>
                    /\ k >= 2
                    /\ \/ events[k - 1].e = "extracted" /\ events[k].at = 0
                       \/ /\ k >= 4
                          /\ events[k - 1].e = "accepted"
                          /\ events[k - 2].e = "reply"
                          /\ events[k - 3].e = "call"
                          /\ events[k - 1].at = events[k - 2].at
                          /\ events[k - 2].at = events[k - 3].at
                          /\ events[k].at = events[k - 1].at + batchSize

\* the third call is pending after two accepted batches
C3_Witness ==
    /\ pc = "awaiting"
    /\ Len(calls) = 3
    /\ Len(settled) = 2
    /\ events[Len(events)] = Event("call", 2)

\* the verdict the run must have reached on the n-th reply, whose parsed ids
\* are `ids`, for the batch whose ids are `batch`
BatchVerdict(n, ids, batch) ==
    LET unexpected == {j \in 1..Len(ids) : ~InSeq(ids[j], batch)}
        missing    == {j \in 1..Len(batch) : ~InSeq(batch[j], ids)}
        accepted   == \E k \in EventsOf({"accepted"}) :
                          events[k].at = (n - 1) * batchSize
    IN  /\ unexpected # {} =>
              /\ n = Len(settled)
              /\ pc = "failed"
              /\ error = Error("UnexpectedId", "", ids[SetMin(unexpected)], -1)
        /\ (unexpected = {} /\ missing # {}) =>
              /\ n = Len(settled)
              /\ pc = "failed"
              /\ error = Error("MissingInBatch", "", batch[SetMin(missing)], -1)
        /\ accepted <=> (unexpected = {} /\ missing = {})

ReplyVerdict(n, parsed) ==
    parsed.ok =>
        BatchVerdict(n, IdsOf(parsed.value),
                     IdsOf(SpansWithIds((n - 1) * batchSize,
                               Min(n * batchSize, Len(contexts)))))

\* C4: in the state a reply leaves, and so for every reply of the run:
\* a batch is accepted only when the ids of its parsed reply are exactly
\* the ids of the batch; a reply with an id outside the batch fails the run
\* with the unexpected-id error naming that id (the first such id of the
\* reply), whether or not a batch id is missing too, and a reply with batch
\* ids only that omits one fails it with the missing-correction error
\* naming the omitted id.
C4_BatchIdsExact ==
    (settled # <<>> /\ settled[Len(settled)].ok)
        => ReplyVerdict(Len(settled),
                        parseResponse(settled[Len(settled)].value))

\* the second reply of a run of three spans in batches of two carries id 0,
\* which belongs to the first batch, and not id 2
C4_Witness ==
    /\ pc = "failed"
    /\ Len(contexts) = 3
    /\ batchSize = 2
    /\ Len(settled) = 2
    /\ settled[2].ok
    /\ parseResponse(settled[2].value).ok
    /\ IdsOf(parseResponse(settled[2].value).value) = <<IntNum(0)>>
    /\ error = Error("UnexpectedId", "", IntNum(0), -1)

\* the failure the run must carry when its last call settled as `last`
FailureOf(last, parsed) ==
    \/ ~last.ok /\ error = last.error
    \/ last.ok /\ ~parsed.ok /\ error = parsed.error
    \/ last.ok /\ parsed.ok /\ error.kind \in {"UnexpectedId", "MissingInBatch"}

\* C5: a failure at batch k ends the run: a rejected call, or a reply that
\* is not accepted, is the last event of the history and leaves the run
\* failed; the failed run carries that failure (the oracle's own error as it
\* was thrown), has made exactly k+1 calls and has returned nothing.
C5_FailureTerminal ==
    /\ \A k \in 1..Len(events) :
          \/ events[k].e \in {"extracted", "call", "accepted"}
          \/ events[k].e = "reply" /\ k < Len(events)
                /\ events[k + 1] = Event("accepted", events[k].at)
          \/ k = Len(events) /\ pc = "failed"
    /\ (pc = "failed" /\ calls # <<>>) =>
          /\ Len(settled) = Len(calls)
          /\ Len(calls) = (i \div batchSize) + 1
          /\ i % batchSize = 0
          /\ events[Len(events)].e \in {"reply", "rejected"}
          /\ FailureOf(settled[Len(settled)],
                       IF settled[Len(settled)].ok
                       THEN parseResponse(settled[Len(settled)].value)
                       ELSE Throw(NoError))
          /\ result = NoResult

\* the second of three calls was rejected with the oracle's error: two calls
\* were made, the third never was
C5_Witness ==
    /\ pc = "failed"
    /\ Len(contexts) = 3
    /\ batchSize = 1
    /\ Len(calls) = 2
    /\ ~settled[2].ok
    /\ error = Error("Oracle", "timeout", NoNum, -1)

\* a finite whole number >= min
WholeAtLeast(v, min) == v.k = "fin" /\ v.f = <<>> /\ v.s * v.i >= min

\* the run, begun with the sizes bs and cs (the defaults where absent)
SizesChecked(bs, cs) ==
    /\ ~WholeAtLeast(bs, 1) =>
          /\ pc = "failed"
          /\ error = Error("InvalidOption", "batchSize", bs, 1)
          /\ events = <<>> /\ calls = <<>> /\ contexts = <<>>
    /\ (WholeAtLeast(bs, 1) /\ ~WholeAtLeast(cs, 0)) =>
          /\ pc = "failed"
          /\ error = Error("InvalidOption", "contextSize", cs, 0)
          /\ events = <<>> /\ calls = <<>> /\ contexts = <<>>
    /\ (WholeAtLeast(bs, 1) /\ WholeAtLeast(cs, 0)) =>
          /\ error.kind # "InvalidOption"
          /\ events # <<>> => batchSize = bs.s * bs.i
          /\ (events # <<>> /\ settled = <<>>) =>
                contexts = extractCitations(text, cs.s * cs.i)

\* C6: a batchSize that is not a finite whole number >= 1, or a contextSize
\* that is not a finite whole number >= 0, fails the run with the
\* invalid-option error of that name before the extraction and before any
\* call, whatever the text; an absent size is 20, resp. 100.
C6_InvalidSizes ==
    (pc # "start" /\ options.given) =>
        SizesChecked(
            IF options.batchSize = Undefined THEN IntNum(20)
            ELSE options.batchSize,
            IF options.contextSize = Undefined THEN IntNum(100)
            ELSE options.contextSize)

\* a fractional batchSize failed a run over a text with citations, with the
\* context size left to its default
C6_Witness ==
    /\ pc = "failed"
    /\ options.batchSize = OneAndHalf
    /\ options.contextSize = Undefined
    /\ text = IdChunk \o WordChunk
    /\ error = Error("InvalidOption", "batchSize", OneAndHalf, 1)
    /\ events = <<>>

\* extractCitations has returned
ExtractionDone == pc = "extracted"

\* C7: every span extractCitations returns lies in the text, is not empty,
\* and carries exactly the characters of the text from its start to its
\* end, also when merging has moved its end or a signal has moved its start.
C7_SpanIsSlice ==
    ExtractionDone =>
        \A j \in 1..Len(contexts) :
            /\ 0 <= contexts[j].start
            /\ contexts[j].start < contexts[j].end
            /\ contexts[j].end <= Len(text)
            /\ contexts[j].original =
                   SubSeq(text, contexts[j].start + 1, contexts[j].end)

\* "See Id. at 5 U.S.C. §1": the span of "Id. at 5" whose end the statute
\* has moved and whose start the signal has moved
C7_Witness ==
    /\ ExtractionDone
    /\ Len(contexts) = 1
    /\ contexts[1].start = 0
    /\ contexts[1].end = 22
    /\ contexts[1].original =
           <<"S", "e", "e", " ", "I", "d", ".", " ", "a", "t", " ", "5", " ",
             "U", ".", "S", ".", "C", ".", " ", SectionSign, "1">>

\* C8: the spans extractCitations returns do not overlap, are in strictly
\* ascending order of start, and have the ids 0, 1, ..., n-1 in that order.
C8_SpansApartInOrder ==
    ExtractionDone =>
        /\ \A j \in 1..Len(contexts) : contexts[j].id = IntNum(j - 1)
        /\ \A j, k \in 1..Len(contexts) :
              j < k => /\ contexts[j].start < contexts[k].start
                       /\ contexts[j].end <= contexts[k].start

\* "Id.See Id.": the signal moves the start of the second span up to the end
\* of the first
C8_Witness ==
    /\ ExtractionDone
    /\ Len(contexts) = 2
    /\ contexts[1].end = 3
    /\ contexts[2].start = 3
    /\ contexts[2].original = <<"S", "e", "e", " ", "I", "d", ".">>
    /\ contexts[2].id = IntNum(1)

\* the spans in ascending order of start, for spans that do not overlap
Ascending(spans) ==
    [j \in 1..Len(spans) |->
        CHOOSE c \in {spans[n] : n \in 1..Len(spans)} :
            Cardinality({n \in 1..Len(spans) : spans[n].start < c.start})
                = j - 1]

\* the replacement the corrections give for the span with the id `id`
ReplacementFor(id) ==
    (CHOOSE c \in {allCorrections[n] : n \in 1..Len(allCorrections)} :
        c.id = id).citation

\* the text from offset pos on, with the spans from the j-th on replaced
RECURSIVE SplicedFrom(_, _, _)
SplicedFrom(spans, j, pos) ==
    IF j > Len(spans) THEN SubSeq(text, pos + 1, Len(text))
    ELSE SubSeq(text, pos + 1, spans[j].start)
         \o ReplacementFor(spans[j].id)
         \o SplicedFrom(spans, j + 1, spans[j].end)

\* the corrections are one for each span
OnePerSpan ==
    /\ Len(allCorrections) = Len(contexts)
    /\ \A j \in 1..Len(contexts) :
          Cardinality({n \in 1..Len(allCorrections) :
                          allCorrections[n].id = contexts[j].id}) = 1

\* C9: for spans that do not overlap and one correction for each, whatever
\* the lengths of the replacements, applyCorrections returns the text
\* before the first span, then each replacement followed by the text up to
\* the next span, resp. the end.
C9_SpliceIsExact ==
    (pc # "start" /\ Apart(contexts) /\ OnePerSpan)
        => /\ pc = "done"
           /\ result.text = SplicedFrom(Ascending(contexts), 1, 0)

\* "abcde" with "b" replaced by a longer text and "de" by nothing, the
\* spans given in descending order
C9_Witness ==
    /\ pc = "done"
    /\ text = <<"a", "b", "c", "d", "e">>
    /\ Len(contexts) = 2
    /\ contexts[1].start = 3 /\ contexts[1].end = 5
    /\ contexts[2].start = 1 /\ contexts[2].end = 2
    /\ result.text = <<"a", "b", "Y", "Z", "c">>

\* every correction puts the text of its span
AllSame ==
    \A n \in 1..Len(allCorrections) :
        \E j \in 1..Len(contexts) :
            /\ contexts[j].id = allCorrections[n].id
            /\ contexts[j].original = allCorrections[n].citation

\* C10: a run whose replies were all accepted and whose corrections each put
\* the text of their span returns the text as it was, no change, and
\* unchanged: true, though the oracle was called.
C10_NoOpUnchanged ==
    (/\ ValidRun
     /\ Len(contexts) >= 1
     /\ Cardinality(EventsOf({"accepted"}))
            = CeilDiv(Len(contexts), batchSize)
     /\ AllSame)
        => /\ pc = "done"
           /\ calls # <<>>
           /\ result = [text |-> text, corrections |-> <<>>,
                        unchanged |-> TRUE]

\* two spans, one call, both corrections the spans' own text
C10_Witness ==
    /\ pc = "done"
    /\ Len(contexts) = 2
    /\ Len(calls) = 1
    /\ Len(allCorrections) = 2
    /\ AllSame
    /\ result.unchanged

\* C11: the change list applyCorrections returns is strictly ascending by
\* position, whatever the order of the spans and of the corrections (the
\* splices themselves are made from the last span to the first).
C11_ChangesAscending ==
    pc = "done"
        => \A j, k \in 1..Len(result.corrections) :
              j < k => result.corrections[j].position
                           < result.corrections[k].position

\* two spans given last first, both changed
C11_Witness ==
    /\ pc = "done"
    /\ Len(contexts) = 2
    /\ contexts[1].start > contexts[2].start
    /\ Len(result.corrections) = 2
    /\ result.corrections[1].position = contexts[2].start

\* the ids that two of the corrections hold
RepeatedIds ==
    {allCorrections[n].id : n \in {m \in 1..Len(allCorrections) :
        \E k \in 1..Len(allCorrections) :
            k # m /\ allCorrections[k].id = allCorrections[m].id}}

\* the spans whose correction differs from their text
ChangedSpans ==
    {j \in 1..Len(contexts) :
        ReplacementFor(contexts[j].id) # contexts[j].original}

\* the k-th change record is the one of the j-th span
RecordOf(k, j) ==
    /\ result.corrections[k].position = contexts[j].start
    /\ result.corrections[k].original = contexts[j].original
    /\ result.corrections[k].replacement = ReplacementFor(contexts[j].id)

\* C12: for corrections whose ids differ, the change list holds one record
\* for each span whose replacement differs from its text and no other
\* record; the record has the span's
\* start in the original text as position, the span's text as original and
\* the correction as replacement; unchanged is true exactly when the list is
\* empty.
C12_ChangeRecords ==
    (pc = "done" /\ RepeatedIds = {})
        => /\ Len(result.corrections) = Cardinality(ChangedSpans)
           /\ \A j \in ChangedSpans :
                 Cardinality({k \in 1..Len(result.corrections) :
                                 RecordOf(k, j)}) = 1
           /\ \A k \in 1..Len(result.corrections) :
                 \E j \in ChangedSpans : RecordOf(k, j)
           /\ result.unchanged <=> result.corrections = <<>>

\* two spans, the first one's correction its own text, the second one's not
C12_Witness ==
    /\ pc = "done"
    /\ Len(contexts) = 2
    /\ ChangedSpans = {2}
    /\ Len(result.corrections) = 1
    /\ RecordOf(1, 2)
    /\ ~result.unchanged

\* the span ids without a correction, the correction ids without a span
MissingIds ==
    {contexts[j].id : j \in 1..Len(contexts)}
        \ {allCorrections[n].id : n \in 1..Len(allCorrections)}
UnknownIds ==
    {allCorrections[n].id : n \in 1..Len(allCorrections)}
        \ {contexts[j].id : j \in 1..Len(contexts)}

\* C13: applyCorrections fails with "Missing correction for citation id X"
\* when a span id X has no correction, and with "Unknown correction id X"
\* when a correction id X is of no span (the spans are looked at first, so a
\* list that has both faults fails with the former); either way it returns
\* no text and no change list, and without these faults, for corrections
\* whose ids differ, it returns.
C13_TwoWayComplete ==
    pc # "start"
        => /\ MissingIds # {}
                => /\ pc = "failed"
                   /\ error.kind = "MissingCorrection"
                   /\ error.id \in MissingIds
                   /\ result = NoResult
           /\ (MissingIds = {} /\ UnknownIds # {})
                => /\ pc = "failed"
                   /\ error.kind = "UnknownCorrection"
                   /\ error.id \in UnknownIds
                   /\ result = NoResult
           /\ (MissingIds = {} /\ UnknownIds = {} /\ RepeatedIds = {})
                => pc = "done"

\* two spans with a changing correction each, and a third correction
C13_Witness ==
    /\ pc = "failed"
    /\ Len(contexts) = 2
    /\ Len(allCorrections) = 3
    /\ \A n \in 1..2 : allCorrections[n].citation # contexts[n].original
    /\ error.kind = "UnknownCorrection"
    /\ error.id = IntNum(2)

\* the element at index j of the array of the reply
ItemAt(j) == parsedItems.value[j + 1]
Indices == 0..(Len(parsedItems.value) - 1)

\* a record that holds a number as id and a string as citation
Shaped(item) ==
    /\ item.t = "obj"
    /\ \E m \in 1..Len(item.v) : item.v[m].key = KeyId
    /\ \E m \in 1..Len(item.v) : item.v[m].key = KeyCitation
    /\ GetKey(item, KeyId).t = "num"
    /\ GetKey(item, KeyCitation).t = "str"

\* a record that holds an integer as id and a string as citation
GoodShape(item) == Shaped(item) /\ IsWhole(GetKey(item, KeyId).v)

IdAt(j) == GetKey(ItemAt(j), KeyId).v
CitationAt(j) == GetKey(ItemAt(j), KeyCitation).v

\* the citation at index j is empty or blank; its id is the id of an
\* element before it
Blank(j) == Shaped(ItemAt(j)) /\ Trim(CitationAt(j)) = <<>>
Repeats(j) ==
    /\ Shaped(ItemAt(j))
    /\ \E k \in 0..(j - 1) : Shaped(ItemAt(k)) /\ IdAt(k) = IdAt(j)
\* nothing is wrong with the elements before index j
SoundBefore(j) ==
    \A k \in 0..(j - 1) : Shaped(ItemAt(k)) /\ ~Blank(k) /\ ~Repeats(k)

\* C14: parseResponse rejects every array element that is not a record
\* holding an integer id and a string citation (a non-record, a missing
\* field, an id that is no number or no integer, a citation that is no
\* string): the call fails, with "Invalid correction at index j" when j is
\* the first element something is wrong with.
C14_BadShapeRejected ==
    (pc # "start" /\ parsedItems.ok)
        => \A j \in Indices :
              ~GoodShape(ItemAt(j))
                 => /\ pc = "failed"
                    /\ SoundBefore(j)
                          => error = Error("InvalidCorrection", "", NoNum, j)

\* C15: parseResponse returns no record at all when a citation is empty or
\* blank ("Empty citation", naming index and id) or an id occurs twice
\* ("Duplicate correction id", naming the id), the error being the one of
\* the first element something is wrong with; when it returns, the records
\* are those of the array in its order, their ids differ and no citation is
\* empty after trimming.
C15_EmptyOrDuplicateRejected ==
    (pc # "start" /\ parsedItems.ok)
        => /\ (\E j \in Indices : Blank(j) \/ Repeats(j))
                 => pc = "failed" /\ allCorrections = <<>>
           /\ \A j \in Indices :
                 (SoundBefore(j) /\ Blank(j))
                    => error = Error("EmptyCitation", "", IdAt(j), j)
           /\ \A j \in Indices :
                 (SoundBefore(j) /\ ~Blank(j) /\ Repeats(j))
                    => error = Error("DuplicateId", "", IdAt(j), j)
           /\ pc = "done"
                 => /\ Len(allCorrections) = Len(parsedItems.value)
                    /\ \A j \in Indices :
                          /\ allCorrections[j + 1]
                                = [id |-> IdAt(j), citation |-> CitationAt(j)]
                          /\ Trim(allCorrections[j + 1].citation) # <<>>
                          /\ \A k \in Indices :
                                k # j => allCorrections[k + 1].id
                                             # allCorrections[j + 1].id

\* the array of {id: 0, citation: "X"} twice
C15_Witness ==
    /\ pc = "failed"
    /\ parsedItems.ok
    /\ Len(parsedItems.value) = 2
    /\ SoundBefore(1) /\ ~Blank(1) /\ Repeats(1)
    /\ allCorrections = <<>>
    /\ error = Error("DuplicateId", "", IntNum(0), 1)

\* the reply is the array of the corrections recs with the wrap around it
\* and parseResponse returned recs
ParsedAs(wrap, recs) ==
    (pc # "start" /\ reply = Wrapped(wrap, ArrayText(recs)))
        => pc = "done" /\ allCorrections = recs

\* the statement with prose of any kind after the array: parseResponse
\* returns the corrections of an array for its text alone, inside a fence,
\* with prose before it, after it or both, and with a bracketed phrase
\* before it
C16_AnyProse ==
    \A wrap \in Wraps : \A recs \in GoodArrays : ParsedAs(wrap, recs)

\* C16: parseResponse returns the corrections of an array for its text
\* alone, inside a fence, with prose before it, with prose that holds no "]"
\* after it, with both, and with a bracketed phrase before it.
C16_ProseWithoutBracketAfter ==
    \A wrap \in PlainWraps : \A recs \in GoodArrays : ParsedAs(wrap, recs)

\* "[n] " before and " ok." after the array of two corrections
C16_Witness ==
    /\ pc = "done"
    /\ \E recs \in GoodArrays :
          /\ Len(recs) = 2
          /\ reply = Wrapped(<<PhraseBefore, ProseAfter>>, ArrayText(recs))
          /\ allCorrections = recs

\* the signals whose end is the start of the j-th merged span, or the
\* offset before it
FusingSignals(j) ==
    {n \in 1..Len(signals) :
        \/ signals[n].end = merged[j].start
        \/ signals[n].end = merged[j].start - 1}

\* C17: the start of a span is pulled back to the start of a signal, its
\* text taken anew and its end kept, exactly when the signal ends at the
\* span's start or one character before it; signals that end elsewhere
\* leave the start and the text of every span as the merge left them.
C17_SignalFusion ==
    pc = "extracted"
        => /\ Len(contexts) = Len(merged)
           /\ \A j \in 1..Len(merged) :
                 /\ contexts[j].end = merged[j].end
                 /\ \A n \in FusingSignals(j) :
                       /\ contexts[j].start = signals[n].start
                       /\ contexts[j].original
                             = Slice(text, signals[n].start, merged[j].end)
                 /\ FusingSignals(j) = {}
                       => /\ contexts[j].start = merged[j].start
                          /\ contexts[j].original = merged[j].text

\* two signals and a span: the first signal ends far before the span, the
\* second one character before it
C17_Witness ==
    /\ pc = "extracted"
    /\ Len(signals) = 2
    /\ Len(merged) = 1
    /\ FusingSignals(1) = {2}
    /\ signals[2].end = merged[1].start - 1
    /\ contexts[1].start = signals[2].start
    /\ contexts[1].original # merged[1].text

\* two matches overlap or touch
Linked(a, b) == a.start <= b.end /\ b.start <= a.end

\* the matches (by index) linked to those of S in up to n steps
RECURSIVE Grown(_, _)
Grown(S, n) ==
    IF n = 0 THEN S
    ELSE Grown(S \cup {m \in 1..Len(allMatches) :
                          \E k \in S : Linked(allMatches[m], allMatches[k])},
               n - 1)

\* the connected component of the n-th match, and the interval it spans
Component(n) == Grown({n}, Len(allMatches))
IntervalOf(C) ==
    [start |-> SetMin({allMatches[m].start : m \in C}),
     end   |-> SetMax({allMatches[m].end : m \in C})]

\* C18: the merged spans are the connected components of the matches, two
\* matches being connected when they overlap or touch: each span runs from
\* the smallest start to the largest end of a component and holds that
\* slice of the text, the spans are apart and ascending, and every match
\* lies inside exactly one span; nothing of this depends on the order of
\* allMatches.
C18_MergeIsComponents ==
    pc = "merged"
        => /\ {[start |-> merged[j].start, end |-> merged[j].end] :
                  j \in 1..Len(merged)}
                 = {IntervalOf(Component(n)) : n \in 1..Len(allMatches)}
           /\ \A j, k \in 1..Len(merged) :
                 j < k => merged[j].end < merged[k].start
           /\ \A j \in 1..Len(merged) :
                 merged[j].text = Slice(text, merged[j].start, merged[j].end)
           /\ \A n \in 1..Len(allMatches) :
                 Cardinality({j \in 1..Len(merged) :
                                 /\ merged[j].start <= allMatches[n].start
                                 /\ allMatches[n].end <= merged[j].end}) = 1

\* three matches that make one span, the first two linked only by the
\* third, and the first one not the leftmost
C18_Witness ==
    /\ pc = "merged"
    /\ Len(allMatches) = 3
    /\ ~Linked(allMatches[1], allMatches[2])
    /\ allMatches[1].start > allMatches[2].start
    /\ Len(merged) = 1
    /\ merged[1].start = allMatches[2].start
    /\ merged[1].end = allMatches[1].end

IsSuffix(a, b) ==
    Len(a) <= Len(b) /\ SubSeq(b, Len(b) - Len(a) + 1, Len(b)) = a
IsPrefix(a, b) == Len(a) <= Len(b) /\ SubSeq(b, 1, Len(a)) = a

\* the contextSize extractCitations was called with
SizeGiven == ToInt(options.contextSize)

\* C19: for every span, before is a suffix of the text up to the span's
\* start and after a prefix of the text from its end, each of at most
\* contextSize characters; before is empty for a span at offset 0, after is
\* empty for a span that ends the text, both are empty for contextSize 0;
\* the empty text has no spans.
C19_ContextWindows ==
    pc = "extracted"
        => /\ text = <<>> => contexts = <<>>
           /\ \A j \in 1..Len(contexts) :
                 /\ IsSuffix(contexts[j].before,
                             SubSeq(text, 1, contexts[j].start))
                 /\ IsPrefix(contexts[j].after,
                             SubSeq(text, contexts[j].end + 1, Len(text)))
                 /\ Len(contexts[j].before) <= SizeGiven
                 /\ Len(contexts[j].after) <= SizeGiven
                 /\ contexts[j].start = 0 => contexts[j].before = <<>>
                 /\ contexts[j].end = Len(text) => contexts[j].after = <<>>
                 /\ SizeGiven = 0
                       => /\ contexts[j].before = <<>>
                          /\ contexts[j].after = <<>>

\* contextSize 2 and a span with text on both sides: a before of two
\* characters and an after that is not empty
C19_Witness ==
    /\ pc = "extracted"
    /\ SizeGiven = 2
    /\ Len(contexts) = 1
    /\ contexts[1].start > 0
    /\ contexts[1].end < Len(text)
    /\ Len(contexts[1].before) = 2
    /\ contexts[1].after # <<>>

\* C20: a window that the width cut (it does not reach the start, resp. the
\* end, of the text) gives a before that does not start inside a token and
\* an after that does not end inside one: the character before a before
\* that is not empty is white space, and so is the character after an after
\* that is not empty.
C20_NoCutToken ==
    pc = "extracted"
        => \A j \in 1..Len(contexts) :
              /\ (contexts[j].start - SizeGiven > 0
                     /\ contexts[j].before # <<>>)
                    => text[contexts[j].start - Len(contexts[j].before)]
                          \in WhiteSpace
              /\ (contexts[j].end + SizeGiven < Len(text)
                     /\ contexts[j].after # <<>>)
                    => text[contexts[j].end + Len(contexts[j].after) + 1]
                          \in WhiteSpace

\* the offsets of the "]" of the cleaned reply
ClosingAt(cleaned) == {e \in 0..(Len(cleaned) - 1) : cleaned[e + 1] = "]"}

\* the offsets b before the "]" at offset e that hold a "[" and from which
\* the text up to that "]" parses to an array
ArraysEndingAt(cleaned, e) ==
    {b \in 0..(e - 1) :
        /\ cleaned[b + 1] = "["
        /\ IsArray(JSONParse(Slice(cleaned, b, e + 1)))}

\* what the fallback has to give for the candidates found
FallbackGives(cleaned, e, starts) ==
    IF starts = {}
    THEN /\ ~parsedItems.ok
         /\ pc = "failed"
         /\ error.kind = "NoJsonArray"
    ELSE /\ parsedItems.ok
         /\ parsedItems.value
                = JSONParse(Slice(cleaned, SetMin(starts), e + 1)).v.v

FallbackOf(cleaned, closing) ==
    IF closing = {}
    THEN FallbackGives(cleaned, -1, {})
    ELSE FallbackGives(cleaned, SetMax(closing),
                       ArraysEndingAt(cleaned, SetMax(closing)))

\* C21: when the cleaned reply does not parse to an array, parseResponse
\* takes the parse of the text from the least offset before the last "]"
\* that holds a "[" and from which the text up to that "]" parses to an
\* array; without a "]", or without such an offset, it fails with
\* "no JSON array found".
C21_BracketFallback ==
    (pc # "start" /\ ~IsArray(JSONParse(Cleaned(reply))))
        => FallbackOf(Cleaned(reply), ClosingAt(Cleaned(reply)))

\* "[n] " before the array of one correction: the slice from the first "["
\* does not parse, the one from the second does
C21_Witness ==
    /\ pc = "done"
    /\ \E recs \in GoodArrays :
          /\ Len(recs) = 1
          /\ reply = Wrapped(<<PhraseBefore, NoProse>>, ArrayText(recs))
          /\ ~IsArray(JSONParse(Cleaned(reply)))
          /\ parsedItems.ok
          /\ Len(parsedItems.value) = 1
          /\ allCorrections = recs

\* a reply with a "]" and no array before it
C21_WitnessNoArray ==
    /\ pc = "failed"
    /\ reply = PhraseBefore
    /\ error.kind = "NoJsonArray"

\* C22: applyCorrections fails, and returns no text, for a list that holds
\* two corrections with the id of one span.
C22_RepeatedIdRejected ==
    (pc # "start" /\ \E j \in 1..Len(contexts) : contexts[j].id \in RepeatedIds)
        => pc = "failed" /\ result = NoResult

\* what the code does with such a list that has a correction for every span
\* and none for another id: it returns, with the later of the two put
C22_LaterOneKept ==
    (/\ pc # "start"
     /\ Len(contexts) = 1
     /\ Len(allCorrections) = 2
     /\ \A n \in 1..2 : allCorrections[n].id = contexts[1].id)
        => /\ pc = "done"
           /\ result.text = SubSeq(text, 1, contexts[1].start)
                            \o allCorrections[2].citation
                            \o SubSeq(text, contexts[1].end + 1, Len(text))

\* every batch of the run has passed parseResponse and validateBatchIds
AllAccepted ==
    /\ ValidRun
    /\ Len(contexts) >= 1
    /\ Cardinality(EventsOf({"accepted"}))
           = CeilDiv(Len(contexts), batchSize)

\* the corrections hold the id of each span once and no other id
EachSpanOnce ==
    /\ OnePerSpan
    /\ \A n \in 1..Len(allCorrections) :
          \E j \in 1..Len(contexts) : contexts[j].id = allCorrections[n].id

\* C23: once every batch has passed parsing and the batch id validation, the
\* accumulated corrections hold each span id exactly once and no other id,
\* and the run has returned; no run fails with "Missing correction" or
\* "Unknown correction id" of applyCorrections; a text is returned only by
\* a run all of whose batches passed, and none while a call is pending.
C23_FinalApplyCannotFail ==
    /\ AllAccepted => (EachSpanOnce /\ pc = "done" /\ error = NoError)
    /\ error.kind \notin {"MissingCorrection", "UnknownCorrection"}
    /\ (contexts # <<>> /\ result # NoResult) => (AllAccepted /\ pc = "done")
    /\ pc \in {"awaiting", "failed"} => result = NoResult

\* three spans in batches of two, the first reply with its corrections in
\* the order 1, 0: the run returned with a change
C23_Witness ==
    /\ pc = "done"
    /\ Len(contexts) = 3
    /\ batchSize = 2
    /\ IdsOf(allCorrections) = <<IntNum(1), IntNum(0), IntNum(2)>>
    /\ Cardinality(EventsOf({"accepted"})) = 2
    /\ ~result.unchanged

\* the statement with the text in place of the change list: a run that
\* returns tells unchanged: false, with changes listed, only with a text
\* that differs from the one given, and unchanged: true only with the text
\* given
C24_FlagAgreesWithText ==
    pc = "done"
        => /\ result.unchanged <=> result.corrections = <<>>
           /\ ~result.unchanged => result.text # text
           /\ result.unchanged => result.text = text

\* C24: a run that returns tells unchanged: false exactly with changes
\* listed, each with a replacement that differs from the text of its span,
\* and then, if one change is listed, with a text that differs from the one
\* given; it tells unchanged: true only with the text given.
C24_FlagAgreesWithChanges ==
    pc = "done"
        => /\ result.unchanged <=> result.corrections = <<>>
           /\ \A k \in 1..Len(result.corrections) :
                 result.corrections[k].replacement
                     # result.corrections[k].original
           /\ Len(result.corrections) = 1 => result.text # text
           /\ result.unchanged => result.text = text

\* "Id. at 5 Id. " with the pincite dropped from the first citation and the
\* second left as it is: one change, and another text
C24_Witness ==
    /\ pc = "done"
    /\ text = PinChunk \o IdChunk
    /\ Len(result.corrections) = 1
    /\ result.corrections[1].replacement = <<"I", "d", ".">>
    /\ ~result.unchanged
    /\ result.text = IdChunk \o IdChunk

\* the same text with the pincite moved from the first citation to the
\* second: two changes, and the text given
C24_SameTextWithChanges ==
    /\ pc = "done"
    /\ Len(result.corrections) = 2
    /\ ~result.unchanged
    /\ result.text = text

=============================================================================
